---- MODULE Spec2Model ----
(***************************************************************************)
(* Image-uploader: the object store adapter (S3Service), the image         *)
(* service (ImageService: validation, conversion, thumbnails,              *)
(* transformations) and the upload orchestrator                            *)
(* (ImageUploadController.uploadImage / uploadMultiple).                   *)
(*                                                                         *)
(* Node.js runs one macrotask at a time and drains the microtask queue     *)
(* before the next I/O callback, so one action is one I/O completion       *)
(* together with every promise continuation it triggers.                   *)
(***************************************************************************)
EXTENDS Integers, Sequences, FiniteSets, TLC

(***************************************************************************)
(* Bounds of the model.                                                    *)
(***************************************************************************)
MaxFiles == 6          \* longest `files` argument of uploadMultipleFiles
MaxBatch == 2          \* most files in one uploadMultiple request
MaxFailures == 1       \* most collaborator calls that fail for one uploaded file
MaxSteps == 2          \* most transformations requested besides crop
MaxChunks == 3         \* most chunks in the stream of a stored object
MaxName == 3           \* longest originalName of uploadFile, besides one beyond the limit
MaxCallFiles == 3      \* most files of each of the concurrent uploadMultipleFiles calls
MaxRequests == 2       \* largest maxRequests of a rate limiter
MaxWindow == 2         \* largest windowMs of a rate limiter
MaxClock == 3          \* last millisecond on the clock of the rate limiter
MaxRetries == 5        \* largest `retries` passed to testConnection
MaxDeletes == 2        \* most deleteImage requests served one after the other

(***************************************************************************)
(* Program constants.                                                      *)
(***************************************************************************)
ConcurrencyLimit == 5  \* pLimit(5)

VARIABLES
    bpc,          \* uploadMultipleFiles: "idle", "running", "returned", "thrown"
    files,        \* its `files` argument
    status,       \* state of uploadPromises[i]: "queued", "inflight", "fulfilled", "rejected"
    reason,       \* result.reason.message of a rejected uploadPromises[i]
    activeCount,  \* p-limit: tasks started and not yet settled
    queue,        \* p-limit: indexes of the tasks waiting for a slot
    puts,         \* indexes for which s3Client.send(PutObjectCommand) was called, in call order
    bresult       \* value returned by uploadMultipleFiles

batchVars == <<bpc, files, status, reason, activeCount, queue, puts, bresult>>

VARIABLES
    handler,       \* controller method serving the request: "none", "uploadImage", "uploadMultiple"
    reqFiles,      \* req.file / req.files, each with the outcome its collaborator calls will have
    cpc,           \* the await the handler is suspended at, "idle" before and "done" after
    idx,           \* position of the for..of loop over req.files (1 for req.file)
    store,         \* keys of the blobs written to the bucket
    catalog,       \* prisma.image rows created, by file
    results,       \* uploadMultiple: `results`
    errors,        \* uploadMultiple: `errors`
    responses,     \* responses sent on res
    trace,         \* pipeline stages begun and ended, in order
    pendingThumbs  \* thumbnail puts sent and not yet answered

ctlVars == <<handler, reqFiles, cpc, idx, store, catalog, results, errors, responses, trace,
             pendingThumbs>>

VARIABLES
    imageCall,    \* the ImageService method called, with its arguments
    imageResult   \* what the call returned or threw, and the toBuffer calls it made

imgVars == <<imageCall, imageResult>>

VARIABLES
    s3Call,       \* the S3Service method called, with its arguments
    spc,          \* where that call stands: "idle", "send", "stream", "returned", "thrown", "exited"
    Body,         \* response.Body: the chunks the stream has still to deliver
    chunks,       \* downloadFile: `chunks`
    signCalls,    \* operations for which getSignedUrl was called
    s3Result,     \* value returned to the caller, or the message of the error thrown
    sdkError      \* message of the error the store client or the stream raised, "" if none

s3Vars == <<s3Call, spc, Body, chunks, signCalls, s3Result, sdkError>>

VARIABLES
    batchCalls    \* the uploadMultipleFiles calls running in the process, each with its limiter

VARIABLES
    limiter,      \* createUserRateLimit: maxRequests and windowMs of the middleware created
    userMap,      \* its `userMap`: the timestamps kept for each key
    clock,        \* Date.now()
    admitted,     \* for each key, the times of all the requests that reached next()
    rlResponse    \* what the last request got: its key and 429 or "next"

rlVars == <<limiter, userMap, clock, admitted, rlResponse>>

VARIABLES
    dbCall,       \* testConnection: its arguments `retries` and `delay`
    dbpc,         \* "idle", "query", "wait", "returned"
    attempt,      \* the loop variable
    dbLog,        \* the queries sent and the delays waited, in order
    dbResult      \* the value returned

dbVars == <<dbCall, dbpc, attempt, dbLog, dbResult>>

VARIABLES
    delReq,       \* deleteImage: the request, the row it finds and how its calls will end
    delpc,        \* the await deleteImage is suspended at, "idle" before and "done" after
    bucket,       \* keys of the blobs in the bucket
    rows,         \* ids of the rows of prisma.image
    delResponse   \* status of the response sent

delVars == <<delReq, delpc, bucket, rows, delResponse>>

VARIABLES
    ownReq,       \* the request at the ownership guard: route, options, user, resource
    ownpc,        \* "idle", "lookup", "done", "exited"; "pending" when nothing will call next
    ownNext       \* what next was called with: "none", "controller" or the error

ownVars == <<ownReq, ownpc, ownNext>>

restVars == <<batchCalls, rlVars, dbVars, delVars, ownVars>>

NoValue == [none |-> TRUE]

Range(seq) == { seq[k] : k \in DOMAIN seq }

(***************************************************************************)
(* A file entry: buffer / mimetype are present (TRUE) or missing.          *)
(***************************************************************************)
FileEntry(i, b, m) == [originalName |-> i, buffer |-> b, mimetype |-> m]

FileList(n, bm) == [i \in 1..n |-> FileEntry(i, bm[i][1], bm[i][2])]

InFlight(st) == { i \in DOMAIN st : st[i] = "inflight" }

(***************************************************************************)
(* The task body handed to limit(): the checks, then uploadFile up to its  *)
(* `await this.s3Client.send(command)`.                                    *)
(***************************************************************************)
MissingBuffer == "Missing or invalid file buffer"
MissingMimetype == "Missing file mimetype"
StoreFailure == "Failed to upload file to S3: transport error"

UploadFailed(file, message) ==
    [text |-> "Failed to upload", file |-> file.originalName, cause |-> message]

TaskPrecheckMimetypeOnly(file) ==
    IF ~file.mimetype THEN MissingMimetype
    ELSE "ok"

TaskPrecheck(file) ==
    IF ~file.buffer THEN MissingBuffer
    ELSE IF ~file.mimetype THEN MissingMimetype
    ELSE "ok"

(***************************************************************************)
(* p-limit: while a slot is free and a task waits, start the next task.    *)
(* A task that throws before its first await settles at once and gives    *)
(* its slot back in the same microtask drain.                              *)
(***************************************************************************)
SlotFreeOffByOne(s) == s.activeCount <= ConcurrencyLimit

SlotFree(s) == s.activeCount < ConcurrencyLimit

DequeueLast(q) == [task |-> q[Len(q)], rest |-> SubSeq(q, 1, Len(q) - 1)]

\* queue.dequeue(): the task that has waited longest
Dequeue(q) == [task |-> Head(q), rest |-> Tail(q)]

RECURSIVE pLimitNext(_, _)
pLimitNext(fs, s) ==
    IF SlotFree(s) /\ s.queue # <<>>
    THEN LET i == Dequeue(s.queue).task
             check == TaskPrecheck(fs[i])
         IN IF check = "ok"
            THEN pLimitNext(fs, [s EXCEPT !.queue = Dequeue(@).rest,
                                          !.status[i] = "inflight",
                                          !.puts = Append(@, i),
                                          !.activeCount = @ + 1])
            ELSE pLimitNext(fs, [s EXCEPT !.queue = Dequeue(@).rest,
                                          !.status[i] = "rejected",
                                          !.reason[i] = UploadFailed(fs[i], check)])
    ELSE s

LimiterState == [status |-> status, reason |-> reason, activeCount |-> activeCount,
                 queue |-> queue, puts |-> puts]

SetLimiter(s) ==
    /\ status' = s.status
    /\ reason' = s.reason
    /\ activeCount' = s.activeCount
    /\ queue' = s.queue
    /\ puts' = s.puts

(***************************************************************************)
(* uploadMultipleFiles(files, folder): files.map(file => limit(...))       *)
(***************************************************************************)
\* whether a file has a buffer and a mimetype; in the longer lists no file
\* lacks both
FileShapes(n) ==
    IF n <= 2 THEN BOOLEAN \X BOOLEAN ELSE (BOOLEAN \X BOOLEAN) \ {<<FALSE, FALSE>>}

uploadMultipleFiles ==
    /\ bpc = "idle"
    /\ \E n \in 0..MaxFiles : \E bm \in [1..n -> FileShapes(n)] :
        LET fs == FileList(n, bm)
        IN /\ files' = fs
           /\ SetLimiter(pLimitNext(fs, [status |-> [i \in DOMAIN fs |-> "queued"],
                                         reason |-> [i \in DOMAIN fs |-> NoValue],
                                         activeCount |-> 0,
                                         queue |-> [i \in DOMAIN fs |-> i],
                                         puts |-> <<>>]))
    /\ bpc' = "running"
    /\ UNCHANGED bresult
    /\ UNCHANGED <<ctlVars, imgVars, s3Vars, restVars>>

(***************************************************************************)
(* The store answers the put of file i; uploadFile returns or throws, the  *)
(* task settles, p-limit frees the slot and starts the next waiting task.  *)
(***************************************************************************)
sendSettles ==
    /\ bpc = "running"
    /\ \E i \in InFlight(status), ok \in BOOLEAN :
        LET settled == [LimiterState EXCEPT
                           !.status[i] = IF ok THEN "fulfilled" ELSE "rejected",
                           !.reason[i] = IF ok THEN NoValue
                                         ELSE UploadFailed(files[i], StoreFailure),
                           !.activeCount = @ - 1]
        IN SetLimiter(pLimitNext(files, settled))
    /\ UNCHANGED <<bpc, files, bresult>>
    /\ UNCHANGED <<ctlVars, imgVars, s3Vars, restVars>>

(***************************************************************************)
(* Promise.allSettled(uploadPromises) and the results.forEach              *)
(***************************************************************************)
FailedEntryOfFirst(fs, rs, index) == [file |-> fs[1].originalName, error |-> rs[index]]

FailedEntry(fs, rs, index) == [file |-> fs[index].originalName, error |-> rs[index]]

RECURSIVE CollectResults(_, _, _, _)
CollectResults(fs, st, rs, index) ==
    IF index > Len(fs) THEN [successful |-> <<>>, failed |-> <<>>]
    ELSE LET rest == CollectResults(fs, st, rs, index + 1)
         IN IF st[index] = "fulfilled"
            THEN [rest EXCEPT !.successful =
                     <<[success |-> TRUE, originalName |-> fs[index].originalName]>> \o @]
            ELSE [rest EXCEPT !.failed = <<FailedEntry(fs, rs, index)>> \o @]

AwaitAll(st) ==
    IF \E i \in DOMAIN st : st[i] = "rejected" THEN "thrown" ELSE "returned"

AwaitAllSettled(st) == "returned"

allSettled ==
    /\ bpc = "running"
    /\ \A i \in DOMAIN status : status[i] \in {"fulfilled", "rejected"}
    /\ bpc' = AwaitAllSettled(status)
    /\ bresult' = IF AwaitAllSettled(status) = "returned"
                  THEN [successful |-> CollectResults(files, status, reason, 1).successful,
                        failed |-> CollectResults(files, status, reason, 1).failed,
                        totalProcessed |-> Len(files)]
                  ELSE NoValue
    /\ UNCHANGED <<files, status, reason, activeCount, queue, puts>>
    /\ UNCHANGED <<ctlVars, imgVars, s3Vars, restVars>>

BatchInit ==
    /\ bpc = "idle"
    /\ files = <<>>
    /\ status = <<>>
    /\ reason = <<>>
    /\ activeCount = 0
    /\ queue = <<>>
    /\ puts = <<>>
    /\ bresult = NoValue

BatchNext ==
    \/ uploadMultipleFiles
    \/ sendSettles
    \/ allSettled

(***************************************************************************)
(* JavaScript values, as far as the controller inspects them.              *)
(***************************************************************************)
Undefined == [type |-> "undefined"]
JSTrue == [type |-> "boolean", bool |-> TRUE]
JSObject(props) == [type |-> "object", props |-> props]

GetProp(v, name) ==
    IF v.type = "object" /\ name \in DOMAIN v.props THEN v.props[name] ELSE Undefined

Truthy(v) ==
    CASE v.type = "undefined" -> FALSE
      [] v.type = "boolean" -> v.bool
      [] v.type = "number" -> v.num # 0
      [] v.type = "string" -> v.str # ""
      [] OTHER -> TRUE

Returned(v) == [threw |-> FALSE, value |-> v, message |-> <<>>]
Threw(m) == [threw |-> TRUE, value |-> Undefined, message |-> m]

(***************************************************************************)
(* Images: what sharp(buffer).metadata() reports, and the buffer length.   *)
(***************************************************************************)
MaxSizeDefault == 10 * 1024 * 1024

Image(d, w, h, f, n) == [decodable |-> d, width |-> w, height |-> h, format |-> f, size |-> n]

GoodImage == Image(TRUE, 100, 100, "png", 1000)
TinyImage == Image(TRUE, 10, 10, "png", 1000)
SvgImage == Image(TRUE, 100, 100, "svg", 1000)
HugeImage == Image(TRUE, 100, 100, "jpeg", MaxSizeDefault + 1)
BrokenImage == Image(FALSE, 0, 0, "none", 1000)

Images == {GoodImage, TinyImage, SvgImage, HugeImage, BrokenImage}

sharpMetadata(image) ==
    IF image.decodable
    THEN Returned([format |-> image.format, width |-> image.width, height |-> image.height])
    ELSE Threw(<<"Input buffer contains unsupported image format">>)

(***************************************************************************)
(* helpers.validateImageDimensions: an absent constraint has the default   *)
(* 0 or Infinity, which no width or height violates.  The metadata of      *)
(* sharp has no aspectRatio, parseFloat(undefined) is NaN and both         *)
(* comparisons with NaN are false.                                         *)
(***************************************************************************)
Below(value, constraints, name) ==
    name \in DOMAIN constraints /\ value < constraints[name]

Above(value, constraints, name) ==
    name \in DOMAIN constraints /\ value > constraints[name]

ErrorIf(cond, text) == IF cond THEN <<text>> ELSE <<>>

validateImageDimensions(dimensions, constraints) ==
    LET hasRatio == "aspectRatio" \in DOMAIN dimensions
        errs ==
            ErrorIf(Below(dimensions.width, constraints, "minWidth"), "Width must be at least minWidth")
            \o ErrorIf(Above(dimensions.width, constraints, "maxWidth"), "Width must not exceed maxWidth")
            \o ErrorIf(Below(dimensions.height, constraints, "minHeight"), "Height must be at least minHeight")
            \o ErrorIf(Above(dimensions.height, constraints, "maxHeight"), "Height must not exceed maxHeight")
            \o ErrorIf(hasRatio /\ Below(dimensions.aspectRatio, constraints, "aspectRatioMin"),
                       "Aspect ratio must be at least aspectRatioMin")
            \o ErrorIf(hasRatio /\ Above(dimensions.aspectRatio, constraints, "aspectRatioMax"),
                       "Aspect ratio must not exceed aspectRatioMax")
    IN [isValid |-> errs = <<>>, errors |-> errs]

(***************************************************************************)
(* ImageService.validateImage: returns true or throws.                     *)
(***************************************************************************)
supportedFormatsWithoutGif == {"jpeg", "png", "webp", "tiff", "avif"}

supportedFormats == {"jpeg", "png", "webp", "tiff", "avif", "gif"}

validateImage(image, constraints) ==
    LET metadata == sharpMetadata(image)
        result == validateImageDimensions(metadata.value, constraints)
        maxSize == IF "maxSize" \in DOMAIN constraints THEN constraints.maxSize ELSE MaxSizeDefault
    IN IF metadata.threw THEN Threw(<<"Failed to validate image">> \o metadata.message)
       ELSE IF ~result.isValid THEN Threw(<<"Failed to validate image">> \o result.errors)
       ELSE IF metadata.value.format \notin supportedFormats
            THEN Threw(<<"Failed to validate image", "Unsupported image format">>)
       ELSE IF image.size > maxSize
            THEN Threw(<<"Failed to validate image", "Image exceeds maximum size">>)
       ELSE Returned(JSTrue)

(***************************************************************************)
(* Requests.  Every uploaded file carries the set of collaborator calls    *)
(* (codec, store, database) that fail while it is processed; a file that   *)
(* validateImage refuses has no such call.                                 *)
(***************************************************************************)
Calls == {"metadata", "putOriginal", "resize", "putSmall", "putMedium", "putLarge", "persist"}

Scenarios == { f \in SUBSET Calls : Cardinality(f) <= MaxFailures }

SingleConstraints ==
    [minWidth |-> 50, minHeight |-> 50, maxWidth |-> 5000, maxHeight |-> 5000,
     maxSize |-> MaxSizeDefault, allowedFormats |-> {"jpeg", "jpg", "png", "webp", "gif"}]

MultiConstraints ==
    [maxFileSize |-> MaxSizeDefault, allowedFormats |-> {"jpeg", "jpg", "png", "webp", "gif"}]

Upload(i, image, fails) == [originalname |-> i, image |-> image, fails |-> fails]

Uploads(constraints) ==
    { u \in Images \X Scenarios : validateImage(u[1], constraints).threw => u[2] = {} }

UploadList(n, u) == [i \in 1..n |-> Upload(i, u[i][1], u[i][2])]

(***************************************************************************)
(* Strings whose case matters: the letters in lower case and the positions *)
(* written in upper case.                                                  *)
(***************************************************************************)
Text(letters, caps) == [letters |-> letters, caps |-> caps]

toLowerCase(text) == [text EXCEPT !.caps = {}]

JSNumber(n) == [type |-> "number", num |-> n]
JSFunction(returns) == [type |-> "function", returns |-> returns]

\* obj[key] for an object literal: its own properties, then Object.prototype
ObjectPrototype ==
    ("constructor" :> JSFunction(JSObject(<<>>))) @@ ("__proto__" :> JSObject(<<>>))

Lookup(own, key) ==
    IF key.caps # {} THEN Undefined
    ELSE IF key.letters \in DOMAIN own THEN own[key.letters]
    ELSE IF key.letters \in DOMAIN ObjectPrototype THEN ObjectPrototype[key.letters]
    ELSE Undefined

(***************************************************************************)
(* sharp(buffer): a pipeline over the input; the calls on it only record   *)
(* what to do, the image is decoded and encoded by toBuffer.               *)
(***************************************************************************)
sharp(imageBuffer) ==
    [type |-> "sharp", input |-> imageBuffer, formatOut |-> "input", chain |-> <<>>]

Chain(sharpInstance, op) == [sharpInstance EXCEPT !.chain = Append(@, op)]

FormatOut(sharpInstance, format) == [sharpInstance EXCEPT !.formatOut = format]

Smaller(a, b) == IF a < b THEN a ELSE b

RECURSIVE Pipeline(_, _)
Pipeline(image, chain) ==
    IF chain = <<>> THEN Returned(image)
    ELSE LET op == Head(chain) IN
         CASE op.name = "resize" ->
                Pipeline([image EXCEPT !.width = Smaller(@, op.width),
                                       !.height = Smaller(@, op.height)], Tail(chain))
           [] op.name = "extract" ->
                IF \/ op.width < 1 \/ op.height < 1
                   \/ op.left + op.width > image.width
                   \/ op.top + op.height > image.height
                THEN Threw(<<"extract_area: bad extract area">>)
                ELSE Pipeline([image EXCEPT !.width = op.width, !.height = op.height],
                              Tail(chain))
           [] OTHER -> Pipeline(image, Tail(chain))

toBuffer(sharpInstance) ==
    IF ~sharpInstance.input.decodable
    THEN Threw(<<"Input buffer contains unsupported image format">>)
    ELSE LET out == Pipeline(sharpInstance.input, sharpInstance.chain)
         IN IF out.threw THEN out
            ELSE Returned([out.value EXCEPT
                              !.format = IF sharpInstance.formatOut = "input" THEN @
                                         ELSE sharpInstance.formatOut])

\* a result together with the number of toBuffer calls made to obtain it
Encoded(result, calls) ==
    [threw |-> result.threw, value |-> result.value, message |-> result.message,
     toBuffer |-> calls]

Wrapped(text, result, calls) ==
    Encoded(IF result.threw THEN Threw(<<text>> \o result.message) ELSE result, calls)

(***************************************************************************)
(* ImageService.resizeImage.  codecFails: the codec gives up on this call  *)
(* although the input is an image.                                         *)
(***************************************************************************)
resizeImage(imageBuffer, options, codecFails) ==
    LET sharpInstance ==
            IF options.width # 0 \/ options.height # 0
            THEN Chain(sharp(imageBuffer),
                       [name |-> "resize", width |-> options.width, height |-> options.height])
            ELSE sharp(imageBuffer)
        resizedBuffer == IF codecFails THEN Threw(<<"codec error">>) ELSE toBuffer(sharpInstance)
    IN Wrapped("Failed to resize image", resizedBuffer, 1)

(***************************************************************************)
(* ImageService.convertFormat.  The tiff entry of formatOptions is the     *)
(* value of sharpInstance.tiff(...), computed when the literal is built;   *)
(* the other entries are functions.                                        *)
(***************************************************************************)
GifEncoder(sharpInstance) == FormatOut(sharpInstance, "gif")

GifFallback(sharpInstance) == FormatOut(sharpInstance, "png")

formatOptions(sharpInstance) ==
    LET tiffInstance == FormatOut(sharpInstance, "tiff")
    IN [jpeg |-> JSFunction(FormatOut(tiffInstance, "jpeg")),
        png |-> JSFunction(FormatOut(tiffInstance, "png")),
        webp |-> JSFunction(FormatOut(tiffInstance, "webp")),
        avif |-> JSFunction(FormatOut(tiffInstance, "avif")),
        tiff |-> tiffInstance,
        gif |-> JSFunction(GifFallback(tiffInstance))]

convertFormat(imageBuffer, format) ==
    LET lowerFormat == toLowerCase(format)
        option == Lookup(formatOptions(sharp(imageBuffer)), lowerFormat)
        text == "Failed to convert image format"
    IN IF ~Truthy(option)
       THEN Wrapped(text, Threw(<<"Unsupported format">>), 0)
       ELSE IF option.type # "function"
       THEN Wrapped(text, Threw(<<"formatOptions[lowerFormat] is not a function">>), 0)
       ELSE IF option.returns.type # "sharp"
       THEN Wrapped(text, Threw(<<"sharpInstance.toBuffer is not a function">>), 0)
       ELSE Wrapped(text, toBuffer(option.returns), 1)

(***************************************************************************)
(* ImageService.createThumbnails: the resized buffer is bound to           *)
(* `thumbnailBuffer`, convertFormat is then given `resizedBuffer`.         *)
(***************************************************************************)
Size(name, width, height) == [name |-> name, width |-> width, height |-> height]

defaultSizes == <<Size("small", 150, 150), Size("medium", 300, 300), Size("large", 600, 600)>>

SizeNames(sizes) == { sizes[k].name : k \in DOMAIN sizes }

Webp == Text("webp", {})

createThumbnailsScope(imageBuffer, thumbnailBuffer) ==
    [imageBuffer |-> imageBuffer, thumbnailBuffer |-> thumbnailBuffer]

ReadVariable(scope, name) ==
    IF name \in DOMAIN scope THEN Returned(scope[name])
    ELSE Threw(<<name, "is not defined">>)

createThumbnailsCatchReturnsPartial(thumbnails, message) == Returned(JSObject(thumbnails))

createThumbnailsCatch(thumbnails, message) ==
    Threw(<<"Failed to create thumbnails">> \o message)

RECURSIVE createThumbnailsLoop(_, _, _, _, _)
createThumbnailsLoop(imageBuffer, sizesToProcess, format, failing, thumbnails) ==
    IF sizesToProcess = <<>> THEN Returned(JSObject(thumbnails))
    ELSE LET size == Head(sizesToProcess)
             thumbnailBuffer == resizeImage(imageBuffer, size, size.name \in failing)
             resizedBuffer ==
                 ReadVariable(createThumbnailsScope(imageBuffer, thumbnailBuffer.value),
                              "resizedBuffer")
             convertedBuffer == convertFormat(resizedBuffer.value, format)
             entry == [buffer |-> convertedBuffer.value, width |-> size.width,
                       height |-> size.height, format |-> format]
         IN IF thumbnailBuffer.threw
            THEN createThumbnailsCatch(thumbnails, thumbnailBuffer.message)
            ELSE IF resizedBuffer.threw
            THEN createThumbnailsCatch(thumbnails, resizedBuffer.message)
            ELSE IF convertedBuffer.threw
            THEN createThumbnailsCatch(thumbnails, convertedBuffer.message)
            ELSE createThumbnailsLoop(imageBuffer, Tail(sizesToProcess), format, failing,
                                      (size.name :> entry) @@ thumbnails)

createThumbnails(imageBuffer, sizes, format, failing) ==
    createThumbnailsLoop(imageBuffer, IF Len(sizes) > 0 THEN sizes ELSE defaultSizes,
                         format, failing, <<>>)

\* the controller's call: createThumbnails(buffer), every resize failing or none
createThumbnailsOf(file) ==
    createThumbnails(file.image, <<>>, Webp,
                     IF "resize" \in file.fails THEN SizeNames(defaultSizes) ELSE {})

(***************************************************************************)
(* ImageService.applyTransformations.  `transformations` is an object:     *)
(* `fields` maps the names of its fields to their values, `order` is the   *)
(* order in which the fields were written.  The value of crop is an object *)
(* that maps its own fields to numbers.                                    *)
(* extractRefusesEmpty: whether the codec's extract() refuses an area of   *)
(* width or height 0 when called, or only when the pipeline runs.          *)
(***************************************************************************)
JSFalse == [type |-> "boolean", bool |-> FALSE]

BeforeCrop == <<"rotate", "flip", "flop", "sharpen", "blur", "modulate", "grayscale", "negate">>

\* if (transformations.<name>)
Requested(transformations, name) ==
    name \in DOMAIN transformations.fields /\ Truthy(transformations.fields[name])

StepOrderOfFields(transformations, names) ==
    LET Listed(name) == name \in Range(names) IN SelectSeq(transformations.order, Listed)

\* the if statements for `names`, in the order the source has them
StepOrder(transformations, names) == names

RECURSIVE ChainAll(_, _, _)
ChainAll(sharpInstance, transformations, names) ==
    IF names = <<>> THEN sharpInstance
    ELSE ChainAll(IF Requested(transformations, Head(names))
                  THEN Chain(sharpInstance, [name |-> Head(names)])
                  ELSE sharpInstance,
                  transformations, Tail(names))

ChainEach(sharpInstance, transformations, names) ==
    ChainAll(sharpInstance, transformations, StepOrder(transformations, names))

CropField(crop, name) == IF name \in DOMAIN crop THEN JSNumber(crop[name]) ELSE Undefined

InvalidCropValue(v) == v.type # "number" \/ v.num < 0

extract(sharpInstance, area, extractRefusesEmpty) ==
    IF extractRefusesEmpty /\ (area.width = 0 \/ area.height = 0)
    THEN Threw(<<"Expected positive integer for extract area">>)
    ELSE Returned(Chain(sharpInstance, [name |-> "extract"] @@ area))

\* a result of applyTransformations and the calls chained on the instance that
\* toBuffer ran, none when toBuffer was not called
Applied(result, chain) ==
    [threw |-> result.threw, value |-> result.value, message |-> result.message,
     toBuffer |-> result.toBuffer, chain |-> [k \in DOMAIN chain |-> chain[k].name]]

applyTransformations(imageBuffer, transformations, extractRefusesEmpty) ==
    LET text == "Failed to apply transformations"
        beforeCrop == ChainEach(sharp(imageBuffer), transformations, BeforeCrop)
        hasCrop == Requested(transformations, "crop")
        crop == transformations.fields["crop"].props
        fields == <<"left", "top", "width", "height">>
        invalid == \E k \in DOMAIN fields : InvalidCropValue(CropField(crop, fields[k]))
        extracted == extract(beforeCrop, [name \in Range(fields) |-> crop[name]],
                             extractRefusesEmpty)
        cropped == IF hasCrop THEN extracted.value ELSE beforeCrop
        final == ChainEach(cropped, transformations, <<"tint">>)
    IN IF hasCrop /\ invalid
       THEN Applied(Wrapped(text, Threw(<<"Invalid crop parameters">>), 0), <<>>)
       ELSE IF hasCrop /\ extracted.threw THEN Applied(Wrapped(text, extracted, 0), <<>>)
       ELSE Applied(Wrapped(text, toBuffer(final), 1), final.chain)

PutCallOf(size) ==
    CASE size = "small" -> "putSmall"
      [] size = "medium" -> "putMedium"
      [] size = "large" -> "putLarge"

(***************************************************************************)
(* Steps shared by both handlers.                                          *)
(***************************************************************************)
NoThumb == <<0, "none">>

Respond(c, st, ok, data) ==
    [c EXCEPT !.responses = Append(@, [status |-> st, success |-> ok, data |-> data]),
              !.pc = "done"]

Event(c, stage, what) == [c EXCEPT !.trace = Append(@, <<c.idx, stage, what>>)]

Begin(c, stage) == [Event(c, stage, "start") EXCEPT !.pc = stage]

OriginalUploaded(c) ==
    Begin([Event(c, "uploadOriginal", "ok") EXCEPT !.store = @ \cup {<<"images", c.idx>>}],
          "createThumbnails")

ThumbnailsCreated(c, thumbnails) ==
    [Begin(Event(c, "createThumbnails", "ok"), "uploadThumbnails") EXCEPT
        !.pendingThumbs = @ \cup { <<c.idx, size>> : size \in DOMAIN thumbnails.props }]

ThumbPutOk(fs, p) == PutCallOf(p[2]) \notin fs[p[1]].fails

ThumbAnswered(c, fs, p) ==
    [c EXCEPT !.pendingThumbs = @ \ {p},
              !.store = IF ThumbPutOk(fs, p) THEN @ \cup {<<"thumbnails", p[2], p[1]>>} ELSE @]

AwaitsThumb(c, p) == c.pc = "uploadThumbnails" /\ p[1] = c.idx

AllThumbsUploaded(c) == \A q \in c.pendingThumbs : q[1] # c.idx

(***************************************************************************)
(* ImageUploadController.uploadImage                                       *)
(***************************************************************************)
ValidationRejected(validation) == ~Truthy(GetProp(validation, "isValid"))

GateWarnsOnly(validation) == "pass"

Gate(validation) ==
    IF validation.threw THEN "catch"
    ELSE IF ValidationRejected(validation.value) THEN "reject"
    ELSE "pass"

uploadImageCatchSwallows(c, stage) ==
    Respond([Event(c, stage, "fail") EXCEPT !.catalog = Append(@, c.idx)],
            "CREATED", TRUE, NoValue)

uploadImageCatch(c, stage) ==
    Respond(Event(c, stage, "fail"), "INTERNAL_SERVER_ERROR", FALSE, NoValue)

uploadImageStep(c, fs, p) ==
    LET file == fs[c.idx] IN
    CASE c.pc = "validate" ->
           LET validation == validateImage(file.image, SingleConstraints)
           IN IF Gate(validation) = "catch" THEN uploadImageCatch(c, "validate")
              ELSE IF Gate(validation) = "reject"
                   THEN Respond(Event(c, "validate", "ok"), "BAD_REQUEST", FALSE, NoValue)
              ELSE Begin(Event(c, "validate", "ok"), "metadata")
      [] c.pc = "metadata" ->
           IF "metadata" \in file.fails THEN uploadImageCatch(c, "metadata")
           ELSE Begin(Event(c, "metadata", "ok"), "uploadOriginal")
      [] c.pc = "uploadOriginal" ->
           IF "putOriginal" \in file.fails THEN uploadImageCatch(c, "uploadOriginal")
           ELSE OriginalUploaded(c)
      [] c.pc = "createThumbnails" ->
           LET thumbnails == createThumbnailsOf(file)
           IN IF thumbnails.threw THEN uploadImageCatch(c, "createThumbnails")
              ELSE ThumbnailsCreated(c, thumbnails.value)
      [] c.pc = "persist" ->
           IF "persist" \in file.fails THEN uploadImageCatch(c, "persist")
           ELSE Respond([Event(c, "persist", "ok") EXCEPT !.catalog = Append(@, c.idx)],
                        "CREATED", TRUE, NoValue)
      [] OTHER -> c

uploadImageThumb(c, fs, p) ==
    LET d == ThumbAnswered(c, fs, p)
    IN IF ~AwaitsThumb(c, p) THEN d
       ELSE IF ~ThumbPutOk(fs, p) THEN uploadImageCatch(d, "uploadThumbnails")
       ELSE IF AllThumbsUploaded(d) THEN Begin(Event(d, "uploadThumbnails", "ok"), "persist")
       ELSE d

(***************************************************************************)
(* ImageUploadController.uploadMultiple                                    *)
(***************************************************************************)
BatchStatusByOutcome(rs, es) == IF rs = <<>> THEN "INTERNAL_SERVER_ERROR" ELSE "OK"

BatchStatus(rs, es) == "OK"

NextFile(c, fs) ==
    IF c.idx < Len(fs)
    THEN Begin([c EXCEPT !.idx = @ + 1], "validate")
    ELSE Respond(c, BatchStatus(c.results, c.errors), TRUE,
                 [successful |-> c.results, failed |-> c.errors])

AbortBatch(c, fs) ==
    Respond(c, BatchStatus(c.results, c.errors), TRUE,
            [successful |-> c.results, failed |-> c.errors])

AfterFileError(c, fs) == NextFile(c, fs)

FileFailed(c, fs, stage, message) ==
    AfterFileError([Event(c, stage, "fail") EXCEPT
                       !.errors = Append(@, [file |-> fs[c.idx].originalname, error |-> message])],
                   fs)

uploadMultipleStep(c, fs, p) ==
    LET file == fs[c.idx]
        validation == validateImage(file.image, MultiConstraints)
        metadata == GetProp(validation.value, "metadata")
    IN
    CASE c.pc = "validate" ->
           IF Gate(validation) = "catch"
           THEN FileFailed(c, fs, "validate", validation.message)
           ELSE IF Gate(validation) = "reject"
                THEN NextFile([Event(c, "validate", "ok") EXCEPT
                                  !.errors = Append(@, [file |-> file.originalname,
                                                        error |-> <<"validation failed">>])], fs)
           ELSE Begin(Event(c, "validate", "ok"), "uploadOriginal")
      [] c.pc = "uploadOriginal" ->
           IF "putOriginal" \in file.fails
           THEN FileFailed(c, fs, "uploadOriginal", <<"Failed to upload file to S3">>)
           ELSE OriginalUploaded(c)
      [] c.pc = "createThumbnails" ->
           LET thumbnails == createThumbnailsOf(file)
           IN IF thumbnails.threw THEN FileFailed(c, fs, "createThumbnails", thumbnails.message)
              ELSE ThumbnailsCreated(c, thumbnails.value)
      [] c.pc = "persist" ->
           IF metadata.type = "undefined"
           THEN FileFailed(c, fs, "persist", <<"Cannot read properties of undefined">>)
           ELSE IF "persist" \in file.fails
           THEN FileFailed(c, fs, "persist", <<"database error">>)
           ELSE NextFile([Event(c, "persist", "ok") EXCEPT
                             !.catalog = Append(@, c.idx),
                             !.results = Append(@, [originalName |-> file.originalname])], fs)
      [] OTHER -> c

uploadMultipleThumb(c, fs, p) ==
    LET d == ThumbAnswered(c, fs, p)
    IN IF ~AwaitsThumb(c, p) THEN d
       ELSE IF ~ThumbPutOk(fs, p)
            THEN FileFailed(d, fs, "uploadThumbnails", <<"Failed to upload file to S3">>)
       ELSE IF AllThumbsUploaded(d) THEN Begin(Event(d, "uploadThumbnails", "ok"), "persist")
       ELSE d

(***************************************************************************)
(* The controller actions.                                                 *)
(***************************************************************************)
CtlState ==
    [pc |-> cpc, idx |-> idx, store |-> store, catalog |-> catalog, results |-> results,
     errors |-> errors, responses |-> responses, trace |-> trace,
     pendingThumbs |-> pendingThumbs]

SetCtl(c) ==
    /\ cpc' = c.pc
    /\ idx' = c.idx
    /\ store' = c.store
    /\ catalog' = c.catalog
    /\ results' = c.results
    /\ errors' = c.errors
    /\ responses' = c.responses
    /\ trace' = c.trace
    /\ pendingThumbs' = c.pendingThumbs

Suspended == cpc \in {"validate", "metadata", "uploadOriginal", "createThumbnails", "persist"}

\* POST /images/upload reaches the controller
uploadImage ==
    /\ cpc = "idle"
    /\ handler' = "uploadImage"
    /\ \E n \in 0..1 : \E u \in [1..n -> Uploads(SingleConstraints)] :
        LET fs == UploadList(n, u)
        IN /\ reqFiles' = fs
           /\ IF fs = <<>>
              THEN SetCtl(Respond(CtlState, "BAD_REQUEST", FALSE, NoValue))
              ELSE SetCtl(Begin([CtlState EXCEPT !.idx = 1], "validate"))
    /\ UNCHANGED <<batchVars, imgVars, s3Vars, restVars>>

\* the call uploadImage awaits completes, or a thumbnail put is answered
uploadImageResume ==
    /\ handler = "uploadImage"
    /\ \E p \in pendingThumbs \cup {NoThumb} :
        /\ p = NoThumb => Suspended
        /\ SetCtl(IF p = NoThumb THEN uploadImageStep(CtlState, reqFiles, p)
                  ELSE uploadImageThumb(CtlState, reqFiles, p))
    /\ UNCHANGED <<handler, reqFiles>>
    /\ UNCHANGED <<batchVars, imgVars, s3Vars, restVars>>

\* POST /images/upload/multiple reaches the controller
uploadMultiple ==
    /\ cpc = "idle"
    /\ handler' = "uploadMultiple"
    /\ \E n \in 0..MaxBatch : \E u \in [1..n -> Uploads(MultiConstraints)] :
        LET fs == UploadList(n, u)
        IN /\ reqFiles' = fs
           /\ IF fs = <<>>
              THEN SetCtl(Respond(CtlState, "BAD_REQUEST", FALSE, NoValue))
              ELSE SetCtl(Begin([CtlState EXCEPT !.idx = 1], "validate"))
    /\ UNCHANGED <<batchVars, imgVars, s3Vars, restVars>>

\* the call uploadMultiple awaits completes, or a thumbnail put is answered
uploadMultipleResume ==
    /\ handler = "uploadMultiple"
    /\ \E p \in pendingThumbs \cup {NoThumb} :
        /\ p = NoThumb => Suspended
        /\ SetCtl(IF p = NoThumb THEN uploadMultipleStep(CtlState, reqFiles, p)
                  ELSE uploadMultipleThumb(CtlState, reqFiles, p))
    /\ UNCHANGED <<handler, reqFiles>>
    /\ UNCHANGED <<batchVars, imgVars, s3Vars, restVars>>

CtlInit ==
    /\ handler = "none"
    /\ reqFiles = <<>>
    /\ cpc = "idle"
    /\ idx = 0
    /\ store = {}
    /\ catalog = <<>>
    /\ results = <<>>
    /\ errors = <<>>
    /\ responses = <<>>
    /\ trace = <<>>
    /\ pendingThumbs = {}

CtlNext ==
    \/ uploadImage
    \/ uploadImageResume
    \/ uploadMultiple
    \/ uploadMultipleResume

(***************************************************************************)
(* ImageUploadController.transformImage                                    *)
(***************************************************************************)
S3ServiceMethods ==
    {"uploadFile", "downloadFile", "deleteFile", "fileExists", "getFileMetadata",
     "generatePresignedUrl", "uploadMultipleFiles", "copyFile", "getBucketRegion",
     "getBucketName", "generateS3Url"}

ImageServiceMethods ==
    {"getImageMetadata", "resizeImage", "convertFormat", "createThumbnails",
     "applyTransformations", "optimizeForWeb", "validateImage"}

Answer(st, ok) == [status |-> st, success |-> ok]

transformImage(image, query) ==
    IF ~image THEN Answer("NOT_FOUND", FALSE)
    ELSE IF "getFile" \notin S3ServiceMethods THEN Answer("INTERNAL_SERVER_ERROR", FALSE)
    ELSE IF "transformImage" \notin ImageServiceMethods
    THEN Answer("INTERNAL_SERVER_ERROR", FALSE)
    ELSE Answer("OK", TRUE)

(***************************************************************************)
(* The image service and the transform endpoint, one call per behaviour.   *)
(***************************************************************************)
ServiceImages ==
    { Image(TRUE, w, h, f, n) : w \in {10, 100, 6000}, h \in {10, 100, 6000},
                                f \in {"jpeg", "png", "gif", "avif", "svg"},
                                n \in {1000, MaxSizeDefault + 1} }
    \cup {BrokenImage}

RatioConstraints == [minWidth |-> 50, aspectRatioMin |-> 2, aspectRatioMax |-> 3]

ConstraintSets == <<SingleConstraints, MultiConstraints, RatioConstraints>>

Targets ==
    { Text(l, c) : l \in {"jpeg", "png", "webp", "avif", "tiff", "gif", "bmp", "jpg", "svg",
                          "constructor"},
                   c \in {{}, {1}, {1, 2, 3}} }
    \cup {Text("", {}), Text("__proto__", {})}

SizeLists ==
    <<<<>>, <<Size("tiny", 50, 50)>>, <<Size("tiny", 50, 50), Size("small", 150, 150)>>>>

CropValues == {-1, 0, 1}

CropKeys == {<<"left", "top">>, <<"x", "y">>}

Crop(keys, v) ==
    (keys[1] :> v[1]) @@ (keys[2] :> v[2]) @@ ("width" :> v[3]) @@ ("height" :> v[4])

OtherFields == Range(BeforeCrop) \cup {"tint"}

validateImageCall ==
    /\ imageCall.method = "none"
    /\ \E image \in ServiceImages, k \in DOMAIN ConstraintSets :
        /\ imageCall' = [method |-> "validateImage", image |-> image,
                         constraints |-> ConstraintSets[k]]
        /\ imageResult' = validateImage(image, ConstraintSets[k])
    /\ UNCHANGED <<batchVars, ctlVars, s3Vars, restVars>>

convertFormatCall ==
    /\ imageCall.method = "none"
    /\ \E image \in {GoodImage, BrokenImage, Image(TRUE, 6000, 100, "gif", 1000)},
          format \in Targets :
        /\ imageCall' = [method |-> "convertFormat", image |-> image, format |-> format]
        /\ imageResult' = convertFormat(image, format)
    /\ UNCHANGED <<batchVars, ctlVars, s3Vars, restVars>>

createThumbnailsCall ==
    /\ imageCall.method = "none"
    /\ \E image \in {GoodImage, BrokenImage, Image(TRUE, 6000, 6000, "jpeg", 1000)},
          k \in DOMAIN SizeLists,
          format \in {Webp, Text("jpeg", {}), Text("bmp", {})},
          failing \in SUBSET {"tiny", "small", "medium", "large"} :
        /\ imageCall' = [method |-> "createThumbnails", image |-> image,
                         sizes |-> SizeLists[k], format |-> format, failing |-> failing]
        /\ imageResult' = createThumbnails(image, SizeLists[k], format, failing)
    /\ UNCHANGED <<batchVars, ctlVars, s3Vars, restVars>>

FieldOrders(S) ==
    { order \in [1..Cardinality(S) -> S] : \A j, k \in DOMAIN order : order[j] = order[k] => j = k }

\* every crop with at most one other field, three crops with more
Crops(others) ==
    IF Cardinality(others) <= 1
    THEN { JSObject(Crop(keys, v)) : keys \in CropKeys, v \in [1..4 -> CropValues] }
    ELSE { JSObject(Crop(<<"left", "top">>, <<0, 0, 1, 1>>)),
           JSObject(Crop(<<"left", "top">>, <<0, 0, 0, 1>>)),
           JSObject(Crop(<<"x", "y">>, <<0, 0, 1, 1>>)) }

applyTransformationsCall ==
    /\ imageCall.method = "none"
    /\ \E image \in {GoodImage, BrokenImage},
          others \in { o \in SUBSET OtherFields : Cardinality(o) <= MaxSteps },
          extractRefusesEmpty \in BOOLEAN :
        \E truthy \in SUBSET others, crop \in Crops(others) \cup {Undefined} :
            LET steps == [name \in others |-> IF name \in truthy THEN JSTrue ELSE JSFalse]
                fields == IF crop = Undefined THEN steps ELSE ("crop" :> crop) @@ steps
            IN \E order \in FieldOrders(DOMAIN fields) :
               LET transformations == [fields |-> fields, order |-> order]
               IN /\ imageCall' = [method |-> "applyTransformations", image |-> image,
                                   transformations |-> transformations]
                  /\ imageResult' = applyTransformations(image, transformations,
                                                         extractRefusesEmpty)
    /\ UNCHANGED <<batchVars, ctlVars, s3Vars, restVars>>

\* GET /images/:id/transform reaches the controller
transformImageRequest ==
    /\ imageCall.method = "none"
    /\ \E image \in BOOLEAN, hasCrop \in BOOLEAN :
        /\ imageCall' = [method |-> "transformImage", image |-> image, hasCrop |-> hasCrop]
        /\ imageResult' = transformImage(image, hasCrop)
    /\ UNCHANGED <<batchVars, ctlVars, s3Vars, restVars>>

ImgInit ==
    /\ imageCall = [method |-> "none"]
    /\ imageResult = NoValue

ImgNext ==
    \/ validateImageCall
    \/ convertFormatCall
    \/ createThumbnailsCall
    \/ applyTransformationsCall
    \/ transformImageRequest

(***************************************************************************)
(* S3Service.downloadFile.  A stored object is the sequence of chunks its  *)
(* stream delivers, each chunk a sequence of bytes.                        *)
(***************************************************************************)
JSString(str) == [type |-> "string", str |-> str]

ChunkValues == {<<1>>, <<2, 3>>}

RECURSIVE BufferConcat(_)
BufferConcat(list) ==
    IF list = <<>> THEN <<>> ELSE Head(list) \o BufferConcat(Tail(list))

downloadFile ==
    /\ spc = "idle"
    /\ \E found \in BOOLEAN, n \in 0..MaxChunks : \E content \in [1..n -> ChunkValues] :
        /\ ~found => n = 0
        /\ s3Call' = [method |-> "downloadFile", found |-> found, content |-> content]
    /\ spc' = "send"
    /\ UNCHANGED <<Body, chunks, signCalls, s3Result, sdkError>>
    /\ UNCHANGED <<batchVars, ctlVars, imgVars, restVars>>

\* the store answers the GetObjectCommand
getObjectAnswers ==
    /\ spc = "send"
    /\ IF s3Call.found
       THEN /\ Body' = s3Call.content
            /\ chunks' = <<>>
            /\ spc' = "stream"
            /\ UNCHANGED <<s3Result, sdkError>>
       ELSE /\ spc' = "thrown"
            /\ sdkError' = "NoSuchKey"
            /\ s3Result' = <<"Failed to download file from S3", "NoSuchKey">>
            /\ UNCHANGED <<Body, chunks>>
    /\ UNCHANGED <<s3Call, signCalls>>
    /\ UNCHANGED <<batchVars, ctlVars, imgVars, restVars>>

\* for await (const chunk of response.Body): one more chunk
chunkArrives ==
    /\ spc = "stream"
    /\ Body # <<>>
    /\ chunks' = Append(chunks, Head(Body))
    /\ Body' = Tail(Body)
    /\ UNCHANGED <<s3Call, spc, signCalls, s3Result, sdkError>>
    /\ UNCHANGED <<batchVars, ctlVars, imgVars, restVars>>

\* the stream ends: the loop is left and the chunks are concatenated
streamEnds ==
    /\ spc = "stream"
    /\ Body = <<>>
    /\ s3Result' = BufferConcat(chunks)
    /\ spc' = "returned"
    /\ UNCHANGED <<s3Call, Body, chunks, signCalls, sdkError>>
    /\ UNCHANGED <<batchVars, ctlVars, imgVars, restVars>>

\* The stream emits 'error'.  The listener registered by downloadFile is
\* called first and throws inside emit(): the listeners of the async
\* iterator are not called, the exception is uncaught and the process's
\* uncaughtException handler exits.
streamErrors ==
    /\ spc = "stream"
    /\ spc' = "exited"
    /\ sdkError' = "stream error"
    /\ UNCHANGED <<s3Call, Body, chunks, signCalls, s3Result>>
    /\ UNCHANGED <<batchVars, ctlVars, imgVars, restVars>>

(***************************************************************************)
(* S3Service.generatePresignedUrl                                          *)
(***************************************************************************)
DefaultExpiresIn == 3600

Default(argument, value) == IF argument.type = "undefined" THEN value ELSE argument

Operations ==
    {Undefined, JSString("getObject"), JSString("putObject"), JSString("GetObject"),
     JSString("deleteObject"), JSString("headObject"), JSString("")}

commandForAny(operation) ==
    IF operation = JSString("putObject") THEN "PutObjectCommand" ELSE "GetObjectCommand"

commandFor(operation) ==
    IF operation = JSString("getObject") THEN "GetObjectCommand"
    ELSE IF operation = JSString("putObject") THEN "PutObjectCommand"
    ELSE "none"

generatePresignedUrl ==
    /\ spc = "idle"
    /\ \E key \in {"a", "b"}, expiresIn \in {Undefined, JSNumber(60)}, op \in Operations :
        LET operation == Default(op, JSString("getObject"))
            command == commandFor(operation)
        IN /\ s3Call' = [method |-> "generatePresignedUrl", key |-> key,
                         expiresIn |-> Default(expiresIn, JSNumber(DefaultExpiresIn)),
                         operation |-> operation]
           /\ IF command = "none"
              THEN /\ spc' = "thrown"
                   /\ s3Result' = <<"Failed to generate presigned URL", "Unsupported operation">>
                   /\ UNCHANGED signCalls
              ELSE /\ spc' = "sign"
                   /\ signCalls' = Append(signCalls, command)
                   /\ UNCHANGED s3Result
    /\ UNCHANGED <<Body, chunks, sdkError>>
    /\ UNCHANGED <<batchVars, ctlVars, imgVars, restVars>>

\* getSignedUrl settles
getSignedUrlAnswers ==
    /\ spc = "sign"
    /\ \E ok \in BOOLEAN :
        IF ok
        THEN /\ spc' = "returned"
             /\ s3Result' = <<"url", s3Call.key, signCalls[Len(signCalls)],
                              s3Call.expiresIn.num>>
             /\ UNCHANGED sdkError
        ELSE /\ spc' = "thrown"
             /\ sdkError' = "signing failed"
             /\ s3Result' = <<"Failed to generate presigned URL", "signing failed">>
    /\ UNCHANGED <<s3Call, Body, chunks, signCalls>>
    /\ UNCHANGED <<batchVars, ctlVars, imgVars, restVars>>

(***************************************************************************)
(* generateUniqueFilename and S3Service.uploadFile.  A file name is the    *)
(* sequence of its characters: "a" a lower-case letter, "B" an upper-case  *)
(* letter, "." the dot and " " a character the sanitizer replaces.         *)
(***************************************************************************)
NameChars == {"a", "B", ".", " "}

BaseNameLimit == 50

\* a name longer than the limit
LongName == [k \in 1..(BaseNameLimit + 2) |-> "a"] \o <<".", "a">>

LastDot(name) ==
    IF "." \in Range(name) THEN CHOOSE k \in DOMAIN name :
                                    name[k] = "." /\ \A j \in DOMAIN name : name[j] = "." => j <= k
    ELSE 0

\* path.extname: from the last dot on, '' without a dot, for a dot only in
\* first position and for '..'
extname(name) ==
    IF LastDot(name) <= 1 \/ name = <<".", ".">>
    THEN <<>>
    ELSE SubSeq(name, LastDot(name), Len(name))

RECURSIVE toLowerCaseChars(_)
toLowerCaseChars(name) ==
    IF name = <<>> THEN <<>>
    ELSE <<IF Head(name) = "B" THEN "b" ELSE Head(name)>> \o toLowerCaseChars(Tail(name))

\* path.basename(name, suffix): the suffix is removed when the name ends with it
basename(name, suffix) ==
    IF /\ suffix # <<>>
       /\ Len(suffix) < Len(name)
       /\ SubSeq(name, Len(name) - Len(suffix) + 1, Len(name)) = suffix
    THEN SubSeq(name, 1, Len(name) - Len(suffix))
    ELSE name

\* .replace(/[^a-zA-Z0-9.-]/g, '_')
RECURSIVE Sanitized(_)
Sanitized(name) ==
    IF name = <<>> THEN <<>>
    ELSE <<IF Head(name) \in {"a", "b", "B", "."} THEN Head(name) ELSE "_">>
         \o Sanitized(Tail(name))

Slice(name, n) == SubSeq(name, 1, IF Len(name) < n THEN Len(name) ELSE n)

generateUniqueFilename(originalName, timestamp, uuid8) ==
    LET extension == toLowerCaseChars(extname(originalName))
        baseName == basename(originalName, extension)
        sanitizedBaseName == Slice(Sanitized(baseName), BaseNameLimit)
    IN sanitizedBaseName \o <<"_", timestamp, "_", uuid8>> \o extension

Folders == {Undefined, JSString("images"), JSString("thumbnails/small"), JSString("")}

KeyOf(folder, filename) ==
    IF Truthy(folder) THEN <<folder.str, "/">> \o filename ELSE filename

uploadFile ==
    /\ spc = "idle"
    /\ \E n \in 0..MaxName, folder \in Folders, timestamp \in {"t1", "t2"} :
        \E chars \in [1..n -> NameChars], long \in BOOLEAN :
            LET originalName == IF long THEN LongName ELSE chars
                filename == generateUniqueFilename(originalName, timestamp, "uuid8")
            IN /\ long => n = 0
               /\ s3Call' = [method |-> "uploadFile", originalName |-> originalName,
                              folder |-> Default(folder, JSString("uploads")),
                              timestamp |-> timestamp, filename |-> filename,
                              key |-> KeyOf(Default(folder, JSString("uploads")), filename)]
    /\ spc' = "put"
    /\ UNCHANGED <<Body, chunks, signCalls, s3Result, sdkError>>
    /\ UNCHANGED <<batchVars, ctlVars, imgVars, restVars>>

\* the store answers the PutObjectCommand
putObjectAnswers ==
    /\ spc = "put"
    /\ \E ok \in BOOLEAN :
        IF ok
        THEN /\ spc' = "returned"
             /\ s3Result' = [success |-> TRUE, key |-> s3Call.key, filename |-> s3Call.filename,
                              originalName |-> s3Call.originalName]
             /\ UNCHANGED sdkError
        ELSE /\ spc' = "thrown"
             /\ sdkError' = "put failed"
             /\ s3Result' = <<"Failed to upload file to S3", "put failed">>
    /\ UNCHANGED <<s3Call, Body, chunks, signCalls>>
    /\ UNCHANGED <<batchVars, ctlVars, imgVars, restVars>>

(***************************************************************************)
(* S3Service.deleteFile                                                    *)
(***************************************************************************)
deleteFile ==
    /\ spc = "idle"
    /\ \E key \in {"a", "b"} : s3Call' = [method |-> "deleteFile", key |-> key]
    /\ spc' = "delete"
    /\ UNCHANGED <<Body, chunks, signCalls, s3Result, sdkError>>
    /\ UNCHANGED <<batchVars, ctlVars, imgVars, restVars>>

\* the store answers the DeleteObjectCommand
deleteObjectAnswers ==
    /\ spc = "delete"
    /\ \E ok \in BOOLEAN :
        IF ok
        THEN /\ spc' = "returned"
             /\ s3Result' = JSTrue
             /\ UNCHANGED sdkError
        ELSE /\ spc' = "thrown"
             /\ sdkError' = "delete failed"
             /\ s3Result' = <<"Failed to delete file from S3", "delete failed">>
    /\ UNCHANGED <<s3Call, Body, chunks, signCalls>>
    /\ UNCHANGED <<batchVars, ctlVars, imgVars, restVars>>

(***************************************************************************)
(* Several uploadMultipleFiles calls in one process.  Each call runs       *)
(* `const limit = pLimit(5)`: the limiter is a local of the call.          *)
(***************************************************************************)
Callers == {1, 2}

coreVars == <<batchVars, ctlVars, imgVars, s3Vars>>

NewLimiter(fs) ==
    [status |-> [i \in DOMAIN fs |-> "queued"], reason |-> [i \in DOMAIN fs |-> NoValue],
     activeCount |-> 0, queue |-> [i \in DOMAIN fs |-> i], puts |-> <<>>]

callUploadMultipleFiles ==
    /\ \E c \in Callers, n \in 0..MaxCallFiles :
        LET fs == FileList(n, [i \in 1..n |-> <<TRUE, TRUE>>])
        IN /\ batchCalls[c].pc = "idle"
           /\ batchCalls' = [batchCalls EXCEPT ![c] = [pc |-> "running", files |-> fs,
                                              limit |-> pLimitNext(fs, NewLimiter(fs))]]
    /\ UNCHANGED <<coreVars, rlVars, dbVars, delVars, ownVars>>

callSendSettles ==
    /\ \E c \in Callers :
        /\ batchCalls[c].pc = "running"
        /\ \E i \in InFlight(batchCalls[c].limit.status), ok \in BOOLEAN :
            LET settled == [batchCalls[c].limit EXCEPT
                               !.status[i] = IF ok THEN "fulfilled" ELSE "rejected",
                               !.reason[i] = IF ok THEN NoValue
                                             ELSE UploadFailed(batchCalls[c].files[i], StoreFailure),
                               !.activeCount = @ - 1]
            IN batchCalls' = [batchCalls EXCEPT ![c].limit = pLimitNext(batchCalls[c].files, settled)]
    /\ UNCHANGED <<coreVars, rlVars, dbVars, delVars, ownVars>>

callAllSettled ==
    /\ \E c \in Callers :
        /\ batchCalls[c].pc = "running"
        /\ \A i \in DOMAIN batchCalls[c].files :
              batchCalls[c].limit.status[i] \in {"fulfilled", "rejected"}
        /\ batchCalls' = [batchCalls EXCEPT ![c].pc = AwaitAllSettled(batchCalls[c].limit.status)]
    /\ UNCHANGED <<coreVars, rlVars, dbVars, delVars, ownVars>>

ProcessInit ==
    batchCalls = [c \in Callers |-> [pc |-> "idle", files |-> <<>>, limit |-> NewLimiter(<<>>)]]

ProcessNext ==
    \/ callUploadMultipleFiles
    \/ callSendSettles
    \/ callAllSettled

(***************************************************************************)
(* createUserRateLimit(maxRequests, windowMs) and the middleware it        *)
(* returns.  Time is Date.now() in milliseconds.                           *)
(***************************************************************************)
Requests == [user : {"u1", "none"}, ip : {"ip1"}]

\* req.user?.id || req.ip
KeyOfRequest(req) == IF req.user # "none" THEN req.user ELSE req.ip

Keys == { KeyOfRequest(req) : req \in Requests }

RecentAll(times, windowStart) == times

\* times.filter(t => t >= windowStart)
Recent(times, windowStart) ==
    LET InWindow(t) == t >= windowStart IN SelectSeq(times, InWindow)

createUserRateLimit ==
    /\ limiter = NoValue
    /\ \E maxRequests \in 0..MaxRequests, windowMs \in 1..MaxWindow :
        limiter' = [maxRequests |-> maxRequests, windowMs |-> windowMs]
    /\ UNCHANGED <<userMap, clock, admitted, rlResponse>>
    /\ UNCHANGED <<coreVars, batchCalls, dbVars, delVars, ownVars>>

\* a millisecond passes
tick ==
    /\ limiter # NoValue
    /\ clock < MaxClock
    /\ clock' = clock + 1
    /\ UNCHANGED <<limiter, userMap, admitted, rlResponse>>
    /\ UNCHANGED <<coreVars, batchCalls, dbVars, delVars, ownVars>>

\* a request passes through the middleware
rateLimit ==
    /\ limiter # NoValue
    /\ \E req \in Requests :
        LET key == KeyOfRequest(req)
            now == clock
            times == userMap[key]
            windowStart == now - limiter.windowMs
            recent == Recent(times, windowStart)
        IN IF Len(recent) >= limiter.maxRequests
           THEN /\ rlResponse' = [key |-> key, status |-> "429", at |-> now]
                /\ UNCHANGED <<userMap, admitted>>
           ELSE /\ userMap' = [userMap EXCEPT ![key] = Append(recent, now)]
                /\ admitted' = [admitted EXCEPT ![key] = Append(@, now)]
                /\ rlResponse' = [key |-> key, status |-> "next", at |-> now]
    /\ UNCHANGED <<limiter, clock>>
    /\ UNCHANGED <<coreVars, batchCalls, dbVars, delVars, ownVars>>

RateLimitInit ==
    /\ limiter = NoValue
    /\ userMap = [key \in Keys |-> <<>>]
    /\ clock = 0
    /\ admitted = [key \in Keys |-> <<>>]
    /\ rlResponse = [key |-> "none", status |-> "none", at |-> 0]

RateLimitNext ==
    \/ createUserRateLimit
    \/ tick
    \/ rateLimit

(***************************************************************************)
(* PrismaService.testConnection(retries = 3, delay = 1000)                 *)
(***************************************************************************)
DefaultRetries == 3

DefaultDelay == 1000

MayRetryOnceMore(n, retries) == n <= retries

\* if (attempt < retries) await the delay, else return false
MayRetry(n, retries) == n < retries

\* for (...; attempt <= retries; ...): the next query, or the end of the loop
LoopTest(n, retries, log) ==
    IF n <= retries
    THEN /\ dbpc' = "query"
         /\ dbLog' = Append(log, "query")
         /\ UNCHANGED dbResult
    ELSE /\ dbpc' = "returned"
         /\ dbLog' = log
         /\ dbResult' = Undefined

testConnection ==
    /\ dbpc = "idle"
    /\ \E retries \in {Undefined} \cup { JSNumber(n) : n \in 0..MaxRetries },
          delay \in {Undefined, JSNumber(0), JSNumber(50)} :
        /\ dbCall' = [retries |-> Default(retries, JSNumber(DefaultRetries)).num,
                       delay |-> Default(delay, JSNumber(DefaultDelay)).num]
        /\ attempt' = 1
        /\ LoopTest(1, Default(retries, JSNumber(DefaultRetries)).num, <<>>)
    /\ UNCHANGED <<coreVars, batchCalls, rlVars, delVars, ownVars>>

\* $queryRaw`SELECT 1` settles
queryAnswers ==
    /\ dbpc = "query"
    /\ \E ok \in BOOLEAN :
        IF ok
        THEN /\ dbpc' = "returned"
             /\ dbResult' = JSTrue
             /\ dbLog' = Append(dbLog, "ok")
        ELSE IF MayRetry(attempt, dbCall.retries)
        THEN /\ dbpc' = "wait"
             /\ dbLog' = dbLog \o <<"failed", "wait">>
             /\ UNCHANGED dbResult
        ELSE /\ dbpc' = "returned"
             /\ dbResult' = JSFalse
             /\ dbLog' = Append(dbLog, "failed")
    /\ UNCHANGED <<dbCall, attempt>>
    /\ UNCHANGED <<coreVars, batchCalls, rlVars, delVars, ownVars>>

\* the timer of setTimeout(res, delay) fires
timerFires ==
    /\ dbpc = "wait"
    /\ attempt' = attempt + 1
    /\ LoopTest(attempt + 1, dbCall.retries, dbLog)
    /\ UNCHANGED dbCall
    /\ UNCHANGED <<coreVars, batchCalls, rlVars, delVars, ownVars>>

DbInit ==
    /\ dbCall = NoValue
    /\ dbpc = "idle"
    /\ attempt = 0
    /\ dbLog = <<>>
    /\ dbResult = NoValue

DbNext ==
    \/ testConnection
    \/ queryAnswers
    \/ timerFires

(***************************************************************************)
(* ImageUploadController.deleteImage.  The table holds two images of user  *)
(* "u1": img1 with the thumbnails uploadImage records, img2 without.       *)
(***************************************************************************)
ThumbnailsOf(sizes) == [size \in sizes |-> [s3key |-> <<"thumbnails", size, "img1">>]]

StoredRows ==
    [img1 |-> [userId |-> "u1", s3Key |-> <<"images", "img1">>,
               metadata |-> JSObject([thumbnails |-> JSObject(ThumbnailsOf({"small", "large"}))])],
     img2 |-> [userId |-> "u1", s3Key |-> <<"images", "img2">>, metadata |-> Undefined]]

StoredBlobs ==
    {<<"images", "img1">>, <<"images", "img2">>,
     <<"thumbnails", "small", "img1">>, <<"thumbnails", "large", "img1">>}

\* prisma.image.findFirst({ where: { id, userId } })
findFirst(table, id, userId) ==
    IF id \in DOMAIN table /\ table[id].userId = userId THEN id ELSE "null"

deleteImage ==
    /\ delpc \in {"idle", "done"}
    /\ delReq.n < MaxDeletes
    /\ \E id \in {"img1", "img2", "img3"}, userId \in {"u1", "u2"} :
        delReq' = [n |-> delReq.n + 1, id |-> id, userId |-> userId]
    /\ delpc' = "findFirst"
    /\ delResponse' = "none"
    /\ UNCHANGED <<bucket, rows>>
    /\ UNCHANGED <<coreVars, batchCalls, rlVars, dbVars, ownVars>>

findFirstAnswers ==
    /\ delpc = "findFirst"
    /\ \E ok \in BOOLEAN :
        IF ~ok
        THEN delpc' = "done" /\ delResponse' = "INTERNAL_SERVER_ERROR"
        ELSE IF findFirst(rows, delReq.id, delReq.userId) = "null"
        THEN delpc' = "done" /\ delResponse' = "NOT_FOUND"
        ELSE delpc' = "deleteFile" /\ UNCHANGED delResponse
    /\ UNCHANGED <<delReq, bucket, rows>>
    /\ UNCHANGED <<coreVars, batchCalls, rlVars, dbVars, ownVars>>

\* s3Service.deleteFile(image.s3Key) settles; then the thumbnails
deleteOriginalAnswers ==
    /\ delpc = "deleteFile"
    /\ \E ok \in BOOLEAN :
        LET image == rows[delReq.id]
            thumbnails == GetProp(image.metadata, "thumbnails")
        IN IF ~ok
           THEN /\ delpc' = "done"
                /\ delResponse' = "INTERNAL_SERVER_ERROR"
                /\ UNCHANGED bucket
           ELSE /\ bucket' = bucket \ {image.s3Key}
                /\ IF ~Truthy(thumbnails)
                   THEN delpc' = "delete" /\ UNCHANGED delResponse
                   ELSE IF "deleteMultipleFiles" \in S3ServiceMethods
                   THEN delpc' = "deleteMultipleFiles" /\ UNCHANGED delResponse
                   ELSE delpc' = "done" /\ delResponse' = "INTERNAL_SERVER_ERROR"
    /\ UNCHANGED <<delReq, rows>>
    /\ UNCHANGED <<coreVars, batchCalls, rlVars, dbVars, ownVars>>

\* prisma.image.delete({ where: { id } }) settles
deleteAnswers ==
    /\ delpc = "delete"
    /\ \E ok \in BOOLEAN :
        IF ok
        THEN /\ rows' = [id \in DOMAIN rows \ {delReq.id} |-> rows[id]]
             /\ delpc' = "done"
             /\ delResponse' = "OK"
        ELSE /\ delpc' = "done"
             /\ delResponse' = "INTERNAL_SERVER_ERROR"
             /\ UNCHANGED rows
    /\ UNCHANGED <<delReq, bucket>>
    /\ UNCHANGED <<coreVars, batchCalls, rlVars, dbVars, ownVars>>

DeleteInit ==
    /\ delReq = [n |-> 0, id |-> "none", userId |-> "none"]
    /\ delpc = "idle"
    /\ bucket = StoredBlobs
    /\ rows = StoredRows
    /\ delResponse = "none"

DeleteNext ==
    \/ deleteImage
    \/ findFirstAnswers
    \/ deleteOriginalAnswers
    \/ deleteAnswers

(***************************************************************************)
(* requireOwnership and the way the image routes mount it.  Image "img1"   *)
(* belongs to user "u1".                                                   *)
(***************************************************************************)
Users ==
    {Undefined, JSObject([id |-> "u1", role |-> "USER"]), JSObject([id |-> "u2", role |-> "USER"]),
     JSObject([id |-> "u3", role |-> "ADMIN"])}

\* how the route hands the guard to the router: the factory itself, as the
\* image routes do, or the middleware the factory returns for `options`
Mounts ==
    {[called |-> FALSE, type |-> Undefined]}
    \cup { [called |-> TRUE, type |-> t] :
              t \in {Undefined, JSString("image"), JSString("value"), JSString("user")} }

Forbidden(message) == <<"ForbiddenException", message>>

Unauthorized == <<"UnauthorizedException", "Unauthorized">>

\* the table the switch reads for `type`, "none" in the default branch
TableOf(type) ==
    IF type = JSString("value") THEN "image"
    ELSE IF type = JSString("user") THEN "user"
    ELSE "none"

\* findUnique({ where: { id } }): the owner of the row, "null" without a row
findUnique(table, id) ==
    IF table = "image" THEN (IF id = "img1" THEN "u1" ELSE "null")
    ELSE IF id \in {"u1", "u2", "u3"} THEN id ELSE "null"

requireOwnership ==
    /\ ownpc = "idle"
    /\ \E mount \in Mounts, user \in Users, id \in {Undefined, JSString("img1"),
                                                     JSString("img2"), JSString("u2")} :
        LET type == Default(mount.type, JSString("image"))
            req == [mount |-> mount, type |-> type, user |-> user, id |-> id]
        IN /\ ownReq' = req
           /\ IF ~mount.called
              THEN ownpc' = "pending" /\ ownNext' = <<"none">>
              ELSE IF ~Truthy(user)
              THEN ownpc' = "done" /\ ownNext' = Unauthorized
              ELSE IF ~Truthy(id)
              THEN ownpc' = "done" /\ ownNext' = Forbidden("Missing resource ID")
              ELSE IF TableOf(type) = "none"
              THEN ownpc' = "done" /\ ownNext' = Forbidden("Invalid resource type")
              ELSE ownpc' = "lookup" /\ ownNext' = <<"none">>
    /\ UNCHANGED <<coreVars, batchCalls, rlVars, dbVars, delVars>>

\* findUnique settles.  When it rejects, so does the promise the middleware
\* returned: a router that watches that promise calls next(error), under
\* one that does not the rejection is unhandled and the process exits.
findUniqueAnswers ==
    /\ ownpc = "lookup"
    /\ \E ok \in BOOLEAN, routerCatches \in BOOLEAN :
        LET ownerId == findUnique(TableOf(ownReq.type), ownReq.id.str)
            user == ownReq.user.props
        IN IF ~ok
           THEN IF routerCatches
                THEN ownpc' = "done" /\ ownNext' = <<"Error", "lookup failed">>
                ELSE ownpc' = "exited" /\ UNCHANGED ownNext
           ELSE /\ ownpc' = "done"
                /\ ownNext' = IF ownerId = "null" THEN Forbidden("not found")
                               ELSE IF ownerId # user.id /\ user.role # "ADMIN"
                               THEN Forbidden("Not authorized to access this resource")
                               ELSE <<"controller">>
    /\ UNCHANGED ownReq
    /\ UNCHANGED <<coreVars, batchCalls, rlVars, dbVars, delVars>>

OwnershipInit ==
    /\ ownReq = NoValue
    /\ ownpc = "idle"
    /\ ownNext = <<"none">>

OwnershipNext ==
    \/ requireOwnership
    \/ findUniqueAnswers

S3Init ==
    /\ s3Call = [method |-> "none"]
    /\ spc = "idle"
    /\ Body = <<>>
    /\ chunks = <<>>
    /\ signCalls = <<>>
    /\ s3Result = NoValue
    /\ sdkError = ""

S3Next ==
    \/ downloadFile
    \/ getObjectAnswers
    \/ chunkArrives
    \/ streamEnds
    \/ streamErrors
    \/ uploadFile
    \/ putObjectAnswers
    \/ deleteFile
    \/ deleteObjectAnswers
    \/ generatePresignedUrl
    \/ getSignedUrlAnswers

vars == <<batchVars, ctlVars, imgVars, s3Vars, restVars>>

(***************************************************************************)
(* SpecBatch: one call of S3Service.uploadMultipleFiles.                   *)
(* SpecUpload: one request served by the upload controller.                *)
(* SpecImage: one call of an ImageService method or of transformImage.     *)
(* SpecStore: one call of S3Service.downloadFile, generatePresignedUrl,    *)
(* uploadFile or deleteFile.                                               *)
(***************************************************************************)
Init ==
    /\ BatchInit /\ CtlInit /\ ImgInit /\ S3Init
    /\ ProcessInit /\ RateLimitInit /\ DbInit /\ DeleteInit /\ OwnershipInit

SpecBatch == Init /\ [][BatchNext]_vars

\* every put that was sent is answered, and the function awaiting
\* Promise.allSettled is resumed once all tasks have settled
SpecBatchFair == SpecBatch /\ WF_vars(sendSettles) /\ WF_vars(allSettled)

SpecUpload == Init /\ [][CtlNext]_vars

SpecProcess == Init /\ [][ProcessNext]_vars

SpecRateLimit == Init /\ [][RateLimitNext]_vars

SpecDelete == Init /\ [][DeleteNext]_vars

SpecOwnership == Init /\ [][OwnershipNext]_vars

\* a query that was sent is answered and a timer that was set fires
SpecDb == Init /\ [][DbNext]_vars /\ WF_vars(queryAnswers) /\ WF_vars(timerFires)

SpecImage == Init /\ [][ImgNext]_vars

SpecStore == Init /\ [][S3Next]_vars

(***************************************************************************)
(* Properties.                                                             *)
(***************************************************************************)
Count(seq, Test(_)) == Cardinality({ k \in DOMAIN seq : Test(seq[k]) })

Malformed(file) == ~file.buffer \/ ~file.mimetype

\* C1: during one uploadMultipleFiles call at most 5 store writes are started and
\* not yet settled, whatever the number of input files.
C1_AtMostFiveInFlight == Cardinality(InFlight(status)) <= 5

C1_Witness ==
    /\ Len(files) > 5
    /\ Cardinality(InFlight(status)) = 5
    /\ queue # <<>>

C3_MalformedFailsWithoutPut ==
    \A i \in DOMAIN files :
        Malformed(files[i]) =>
            /\ i \notin Range(puts)
            /\ status[i] # "fulfilled"
            /\ bpc = "returned" =>
                \E k \in DOMAIN bresult.failed : bresult.failed[k].file = files[i].originalName

C3_Witness ==
    /\ bpc = "returned"
    /\ puts # <<>>
    /\ \E i, j \in DOMAIN files :
        /\ ~files[i].buffer /\ files[i].mimetype
        /\ files[j].buffer /\ ~files[j].mimetype

(***************************************************************************)
(* Properties of the upload controller.                                    *)
(***************************************************************************)
PipelineOrder ==
    <<"validate", "metadata", "uploadOriginal", "createThumbnails", "uploadThumbnails", "persist">>

Happened(i, stage, what) == <<i, stage, what>> \in Range(trace)

ConstraintsOf(h) == IF h = "uploadImage" THEN SingleConstraints ELSE MultiConstraints

\* validateImage accepts file i of the request
PassesValidation(i) == ~validateImage(reqFiles[i].image, ConstraintsOf(handler)).threw

\* position in the trace of the event, 0 if it did not happen
Position(i, stage, what) ==
    IF Happened(i, stage, what)
    THEN CHOOSE k \in DOMAIN trace : trace[k] = <<i, stage, what>>
    ELSE 0

SuccessStatus(st) == st \in {"OK", "CREATED"}

C5_ValidationIsHardGate ==
    \A i \in DOMAIN reqFiles :
        ~PassesValidation(i) =>
            /\ ~Happened(i, "createThumbnails", "start")
            /\ ~Happened(i, "uploadOriginal", "start")
            /\ \A key \in store : key[Len(key)] # i
            /\ \A q \in pendingThumbs : q[1] # i
            /\ i \notin Range(catalog)

C5_Witness ==
    /\ cpc = "done"
    /\ \E i \in DOMAIN reqFiles : ~PassesValidation(i) /\ Happened(i, "validate", "fail")

\* C6: a file that passes validateImage and whose store and persistence calls all
\* succeed gets exactly one catalog record; uploadImage answers 201 and
\* uploadMultiple lists the file as successful.
C6_ValidFileIsStored ==
    cpc = "done" =>
        \A i \in DOMAIN reqFiles :
            (PassesValidation(i) /\ reqFiles[i].fails = {}) =>
                LET Mine(r) == r = i
                    Listed(e) == e.originalName = reqFiles[i].originalname
                IN /\ Count(catalog, Mine) = 1
                   /\ handler = "uploadImage" =>
                        Len(responses) = 1 /\ responses[1].status = "CREATED"
                   /\ handler = "uploadMultiple" => Count(results, Listed) = 1

\* a stage of the single upload has failed, or one of its calls is going to fail
StageFails ==
    \/ \E n \in 1..Len(PipelineOrder) : Happened(1, PipelineOrder[n], "fail")
    \/ reqFiles # <<>> /\ (~PassesValidation(1) \/ reqFiles[1].fails # {})

\* C7: in uploadImage a failed stage makes the call end with a failure response
\* and without catalog record; no success response follows a failed stage.
C7_FailureIsReported ==
    (handler = "uploadImage" /\ StageFails) =>
        /\ catalog = <<>>
        /\ \A k \in DOMAIN responses :
            ~responses[k].success /\ ~SuccessStatus(responses[k].status)
        /\ (\E n \in 1..Len(PipelineOrder) : Happened(1, PipelineOrder[n], "fail")) =>
                responses # <<>>

C7_Witness ==
    /\ handler = "uploadImage"
    /\ cpc = "done"
    /\ Happened(1, "validate", "fail")
    /\ responses = <<[status |-> "INTERNAL_SERVER_ERROR", success |-> FALSE, data |-> NoValue]>>

RECURSIVE Attempted(_)
Attempted(tr) ==
    IF tr = <<>> THEN <<>>
    ELSE IF tr[1][2] = "validate" /\ tr[1][3] = "start"
         THEN <<tr[1][1]>> \o Attempted(Tail(tr))
         ELSE Attempted(Tail(tr))

\* C9: uploadMultiple attempts every file in input order whatever fails, and at
\* the end every file is in exactly one of the lists successful and failed.
C9_IndependentFiles ==
    handler = "uploadMultiple" =>
        /\ \E n \in 0..Len(reqFiles) : Attempted(trace) = [k \in 1..n |-> k]
        /\ cpc = "done" =>
            /\ Len(Attempted(trace)) = Len(reqFiles)
            /\ Len(results) + Len(errors) = Len(reqFiles)
            /\ \A i \in DOMAIN reqFiles :
                LET Ok(e) == e.originalName = reqFiles[i].originalname
                    Ko(e) == e.file = reqFiles[i].originalname
                IN Count(results, Ok) + Count(errors, Ko) = 1

C9_Witness ==
    /\ handler = "uploadMultiple"
    /\ cpc = "done"
    /\ Len(reqFiles) >= 2
    /\ Happened(1, "validate", "fail")
    /\ Happened(2, "validate", "start")
    /\ Len(errors) = Len(reqFiles)

\* the batch endpoint has answered once, with success and the two lists
BatchAnswer ==
    /\ Len(responses) = 1
    /\ responses[1].status = "OK"
    /\ responses[1].success
    /\ responses[1].data = [successful |-> results, failed |-> errors]

\* C10 as stated: uploadMultiple always answers with an HTTP success status and
\* the successful and failed lists, exactly once per request.
C10_AlwaysSuccess ==
    handler = "uploadMultiple" =>
        /\ Len(responses) <= 1
        /\ cpc = "done" => BatchAnswer

\* C10 amended: a request that carries at least one file is answered exactly once,
\* with HTTP success and the successful and failed lists, whatever the per-file
\* outcomes; a request without files is answered once with 400.
C10_SuccessWhenFilesPresent ==
    handler = "uploadMultiple" =>
        /\ Len(responses) <= 1
        /\ (cpc = "done" /\ reqFiles # <<>>) => BatchAnswer
        /\ (cpc = "done" /\ reqFiles = <<>>) =>
                responses = <<[status |-> "BAD_REQUEST", success |-> FALSE, data |-> NoValue]>>

C10_Witness ==
    /\ handler = "uploadMultiple"
    /\ cpc = "done"
    /\ reqFiles # <<>>
    /\ results = <<>>
    /\ Len(errors) = Len(reqFiles)
    /\ BatchAnswer

(***************************************************************************)
(* Properties of the image service.                                        *)
(***************************************************************************)
SizesToProcess(call) == IF Len(call.sizes) > 0 THEN call.sizes ELSE defaultSizes

\* the entry made for a size: the input resized, then converted to the format
ThumbnailOf(call, size, entry) ==
    /\ entry.width = size.width
    /\ entry.height = size.height
    /\ entry.format = call.format
    /\ entry.buffer.format = call.format.letters
    /\ entry.buffer.width = Smaller(call.image.width, size.width)
    /\ entry.buffer.height = Smaller(call.image.height, size.height)

\* C11: createThumbnails(buffer) with no sizes, the default format and a decodable
\* image returns exactly the entries small, medium and large (150, 300, 600 square),
\* each the input resized and then converted to webp.
C11_DefaultThumbnails ==
    ( /\ imageCall.method = "createThumbnails"
      /\ imageCall.sizes = <<>>
      /\ imageCall.format = Webp
      /\ imageCall.failing = {}
      /\ imageCall.image.decodable ) =>
        /\ ~imageResult.threw
        /\ DOMAIN imageResult.value.props = {"small", "medium", "large"}
        /\ ThumbnailOf(imageCall, Size("small", 150, 150), imageResult.value.props["small"])
        /\ ThumbnailOf(imageCall, Size("medium", 300, 300), imageResult.value.props["medium"])
        /\ ThumbnailOf(imageCall, Size("large", 600, 600), imageResult.value.props["large"])

\* resize or convert fails for this size of the call
StepFails(call, size) ==
    LET resized == resizeImage(call.image, size, size.name \in call.failing)
        read == ReadVariable(createThumbnailsScope(call.image, resized.value), "resizedBuffer")
    IN \/ resized.threw
       \/ read.threw
       \/ convertFormat(read.value, call.format).threw

\* C12: when resize or convert fails for one of the sizes, createThumbnails throws
\* and returns nothing; a set that is returned holds every requested size.
C12_AllOrNothing ==
    imageCall.method = "createThumbnails" =>
        LET sizes == SizesToProcess(imageCall)
        IN /\ (\E k \in DOMAIN sizes : StepFails(imageCall, sizes[k])) =>
                /\ imageResult.threw
                /\ imageResult.value = Undefined
           /\ ~imageResult.threw => DOMAIN imageResult.value.props = SizeNames(sizes)

C12_Witness ==
    /\ imageCall.method = "createThumbnails"
    /\ imageCall.image.decodable
    /\ Len(imageCall.sizes) = 2
    /\ imageCall.failing = {}
    /\ imageResult.threw
    /\ imageResult.message = <<"Failed to create thumbnails", "resizedBuffer", "is not defined">>

\* C13: convertFormat of a decodable image to jpeg, png, webp, avif or tiff, in any
\* letter case, returns a buffer encoded in that format.
C13_ConvertsSupportedTargets ==
    ( /\ imageCall.method = "convertFormat"
      /\ imageCall.image.decodable
      /\ imageCall.format.letters \in {"jpeg", "png", "webp", "avif", "tiff"} ) =>
        /\ ~imageResult.threw
        /\ imageResult.value.format = imageCall.format.letters

\* C14: convertFormat to gif, in any letter case, never encodes gif: for a decodable
\* image it returns png output.
C14_GifBecomesPng ==
    (imageCall.method = "convertFormat" /\ imageCall.format.letters = "gif") =>
        /\ imageCall.image.decodable =>
            /\ ~imageResult.threw
            /\ imageResult.value.format = "png"
            /\ imageResult.toBuffer = 1
        /\ ~imageResult.threw => imageResult.value.format # "gif"

C14_Witness ==
    /\ imageCall.method = "convertFormat"
    /\ imageCall.format = Text("gif", {1, 2, 3})
    /\ imageCall.image.format = "gif"
    /\ ~imageResult.threw
    /\ imageResult.value.format = "png"

\* C15: convertFormat to a target string outside jpeg, png, webp, avif, tiff and gif
\* throws the unsupported-format error and makes no toBuffer call.
C15_OtherTargetsUnsupported ==
    ( /\ imageCall.method = "convertFormat"
      /\ imageCall.format.letters \notin {"jpeg", "png", "webp", "avif", "tiff", "gif"} ) =>
        /\ imageResult.threw
        /\ imageResult.message = <<"Failed to convert image format", "Unsupported format">>
        /\ imageResult.toBuffer = 0

\* the horizontal and vertical offset of a crop, whichever field carries it
CropX(crop) == IF "x" \in DOMAIN crop THEN crop["x"] ELSE crop["left"]
CropY(crop) == IF "y" \in DOMAIN crop THEN crop["y"] ELSE crop["top"]

InvalidCropError ==
    /\ imageResult.threw
    /\ imageResult.message = <<"Failed to apply transformations", "Invalid crop parameters">>

\* C16: applyTransformations with a crop whose x, y, width or height is negative or
\* whose width or height is below 1 throws the invalid-crop error without any
\* toBuffer call; a crop with x, y >= 0 and width, height >= 1 passes that check.
C16_InvalidCropFailsFast ==
    ( /\ imageCall.method = "applyTransformations"
      /\ "crop" \in DOMAIN imageCall.transformations.fields ) =>
        LET crop == imageCall.transformations.fields["crop"].props
            bad == \/ CropX(crop) < 0 \/ CropY(crop) < 0
                   \/ crop["width"] < 1 \/ crop["height"] < 1
        IN /\ bad => (InvalidCropError /\ imageResult.toBuffer = 0)
           /\ ~bad => ~InvalidCropError

Pick(cond, name) == IF cond THEN {name} ELSE {}

MaxSizeOf(constraints) ==
    IF "maxSize" \in DOMAIN constraints THEN constraints["maxSize"] ELSE MaxSizeDefault

\* the constraints of validateImage that the image violates
ViolatedConstraints(image, c) ==
    Pick(Below(image.width, c, "minWidth"), "minWidth")
    \cup Pick(Above(image.width, c, "maxWidth"), "maxWidth")
    \cup Pick(Below(image.height, c, "minHeight"), "minHeight")
    \cup Pick(Above(image.height, c, "maxHeight"), "maxHeight")
    \cup Pick("aspectRatioMin" \in DOMAIN c /\ image.width < c["aspectRatioMin"] * image.height,
              "aspectRatioMin")
    \cup Pick("aspectRatioMax" \in DOMAIN c /\ image.width > c["aspectRatioMax"] * image.height,
              "aspectRatioMax")
    \cup Pick(image.size > MaxSizeOf(c), "maxSize")
    \cup Pick(image.format \notin {"jpeg", "png", "webp", "tiff", "avif", "gif"}, "format")

\* C17: for a decodable image that violates N > 0 of the constraints, validateImage
\* throws an error that lists N reasons.
C17_AllViolationsListed ==
    (imageCall.method = "validateImage" /\ imageCall.image.decodable) =>
        LET N == Cardinality(ViolatedConstraints(imageCall.image, imageCall.constraints))
        IN N > 0 =>
            /\ imageResult.threw
            /\ Len(imageResult.message) = 1 + N

WithinDimensions(image, c) ==
    /\ ~Below(image.width, c, "minWidth")
    /\ ~Above(image.width, c, "maxWidth")
    /\ ~Below(image.height, c, "minHeight")
    /\ ~Above(image.height, c, "maxHeight")

DecodesAsSupported(image) ==
    image.decodable /\ image.format \in {"jpeg", "png", "webp", "tiff", "avif", "gif"}

\* C18 as stated: validateImage returns true for every image of a supported decoded
\* format whose width, height and byte size are within the constraints given.
C18_PassesWithinGiven ==
    ( /\ imageCall.method = "validateImage"
      /\ DecodesAsSupported(imageCall.image)
      /\ WithinDimensions(imageCall.image, imageCall.constraints)
      /\ "maxSize" \in DOMAIN imageCall.constraints =>
            imageCall.image.size <= imageCall.constraints["maxSize"] ) =>
        imageResult = Returned(JSTrue)

\* C18 amended: validateImage returns true for every image of a supported decoded
\* format whose width and height are within the constraints given and whose byte
\* size is within maxSize, or within 10 MiB when no maxSize is given.
C18_PassesWithinBounds ==
    ( /\ imageCall.method = "validateImage"
      /\ DecodesAsSupported(imageCall.image)
      /\ WithinDimensions(imageCall.image, imageCall.constraints)
      /\ imageCall.image.size <= MaxSizeOf(imageCall.constraints) ) =>
        imageResult = Returned(JSTrue)

C18_Witness ==
    /\ imageCall.method = "validateImage"
    /\ imageCall.image = Image(TRUE, 100, 100, "gif", 1000)
    /\ imageCall.constraints = SingleConstraints
    /\ imageResult = Returned(JSTrue)

(***************************************************************************)
(* Properties of downloadFile and generatePresignedUrl.                    *)
(***************************************************************************)
\* C19: a downloadFile call ends either by returning the concatenation of all the
\* chunks of the object, after the stream has ended, or by throwing to its caller;
\* it throws when the object is not found and when the stream errors.
C19_CompleteOrError ==
    s3Call.method = "downloadFile" =>
        /\ spc = "returned" => (Body = <<>> /\ s3Result = BufferConcat(s3Call.content))
        /\ (~s3Call.found /\ spc # "send") => spc = "thrown"
        /\ spc \in {"send", "stream", "returned", "thrown"}

SupportedOperation(operation) == operation \in {JSString("getObject"), JSString("putObject")}

\* C20: generatePresignedUrl returns a URL only for getObject and putObject; for
\* any other operation it throws the unsupported-operation error and getSignedUrl
\* is not called.
C20_OnlyGetAndPut ==
    s3Call.method = "generatePresignedUrl" =>
        /\ spc = "returned" => SupportedOperation(s3Call.operation)
        /\ ~SupportedOperation(s3Call.operation) =>
            /\ spc = "thrown"
            /\ s3Result = <<"Failed to generate presigned URL", "Unsupported operation">>
            /\ signCalls = <<>>

C20_Witness ==
    /\ s3Call.method = "generatePresignedUrl"
    /\ s3Call.operation = JSString("deleteObject")
    /\ spc = "thrown"
    /\ signCalls = <<>>

FixedOrder ==
    <<"rotate", "flip", "flop", "sharpen", "blur", "modulate", "grayscale", "negate", "crop",
      "tint">>

\* the names of the fields of the steps that toBuffer ran, in the order they were chained
StepsRun == [k \in DOMAIN imageResult.chain |->
                IF imageResult.chain[k] = "extract" THEN "crop" ELSE imageResult.chain[k]]

\* C22 as stated: the steps applied are the fields present in the object, in the
\* fixed order rotate, flip, flop, sharpen, blur, modulate, grayscale, negate,
\* crop, tint, whatever the order of the fields.
C22_PresentFieldsInFixedOrder ==
    (imageCall.method = "applyTransformations" /\ imageResult.toBuffer = 1) =>
        LET Present(name) == name \in DOMAIN imageCall.transformations.fields
        IN StepsRun = SelectSeq(FixedOrder, Present)

\* C22 amended: the steps applied are the fields present with a truthy value, in
\* the fixed order, whatever the order of the fields.
C22_TruthyFieldsInFixedOrder ==
    (imageCall.method = "applyTransformations" /\ imageResult.toBuffer = 1) =>
        LET Wanted(name) == /\ name \in DOMAIN imageCall.transformations.fields
                            /\ Truthy(imageCall.transformations.fields[name])
        IN StepsRun = SelectSeq(FixedOrder, Wanted)

C22_Witness ==
    /\ imageCall.method = "applyTransformations"
    /\ imageCall.transformations.order = <<"crop", "negate", "rotate">>
    /\ imageResult.toBuffer = 1
    /\ ~imageResult.threw
    /\ StepsRun = <<"rotate", "negate", "crop">>

(***************************************************************************)
(* Properties of the store adapter's error propagation and key generation. *)
(***************************************************************************)
\* C21: whenever the store call or the stream fails inside uploadFile,
\* downloadFile or deleteFile, the operation throws to its caller an error that
\* carries the failure's message; it does not return and does not end otherwise.
C21_FailuresAreRaised ==
    (s3Call.method \in {"uploadFile", "downloadFile", "deleteFile"} /\ sdkError # "") =>
        /\ spc = "thrown"
        /\ s3Result[2] = sdkError

\* the name without its extension
Stem(name) == SubSeq(name, 1, Len(name) - Len(extname(name)))

AllowedChars == {"a", "b", "B", ".", "-", "_"}

\* C26: the key generated by uploadFile is folder/filename, where filename is the
\* sanitized basename (allowed characters only, at most 50 of them), '_', the
\* timestamp, '_', the 8-character random part and the lower-cased extension.
C26_KeyHasClaimedForm ==
    s3Call.method = "uploadFile" =>
        \E base \in {Slice(Sanitized(Stem(s3Call.originalName)), BaseNameLimit)} :
            /\ Range(base) \subseteq AllowedChars
            /\ Len(base) <= 50
            /\ s3Call.filename = base \o <<"_", s3Call.timestamp, "_", "uuid8">>
                                      \o toLowerCaseChars(extname(s3Call.originalName))
            /\ s3Call.key = <<s3Call.folder.str, "/">> \o s3Call.filename

(***************************************************************************)
(* Properties of the result of uploadMultipleFiles.                        *)
(***************************************************************************)
Rejected == { i \in DOMAIN status : status[i] = "rejected" }

EntriesOf(i) == { k \in DOMAIN bresult.failed : bresult.failed[k].file = files[i].originalName }

\* C24: in the value uploadMultipleFiles returns, every failed entry names an
\* input whose upload was rejected and carries the message of that rejection,
\* and every rejected upload has exactly one entry.
C24_FailuresAttributed ==
    bpc = "returned" =>
        /\ \A k \in DOMAIN bresult.failed :
            \E i \in Rejected : /\ bresult.failed[k].file = files[i].originalName
                                /\ bresult.failed[k].error = reason[i]
                                /\ bresult.failed[k].error.file = files[i].originalName
        /\ \A i \in Rejected : Cardinality(EntriesOf(i)) = 1

\* the second file was rejected before its put, the first one later by the store
C24_Witness ==
    /\ bpc = "returned"
    /\ Len(bresult.failed) = 2
    /\ bresult.failed[1].file = files[1].originalName
    /\ bresult.failed[1].error.cause = StoreFailure
    /\ bresult.failed[2].file = files[2].originalName
    /\ bresult.failed[2].error.cause = MissingBuffer

Settled(i) == status[i] \in {"fulfilled", "rejected"}

Increasing(seq) == \A j, k \in DOMAIN seq : j < k => seq[j] < seq[k]

\* a task waits only while all the slots are taken, the waiting tasks are the
\* last files of the input, in input order, and the puts were sent in input order
QueueDiscipline ==
    /\ queue # <<>> => activeCount = ConcurrencyLimit
    /\ Cardinality(InFlight(status)) <= ConcurrencyLimit
    /\ Increasing(queue)
    /\ Increasing(puts)
    /\ \A k \in DOMAIN queue : status[queue[k]] = "queued"
    /\ \A i \in DOMAIN status, k \in DOMAIN queue : status[i] # "queued" => i < queue[k]

\* a waiting task leaves the queue only in a step in which a put is answered
StartsOnSettle ==
    \A i \in DOMAIN status :
        (status[i] = "queued" /\ status'[i] # "queued") =>
            \E j \in DOMAIN status : status[j] = "inflight" /\ status'[j] \in {"fulfilled", "rejected"}

RECURSIVE Sum(_, _)
Sum(f, S) == IF S = {} THEN 0 ELSE LET x == CHOOSE x \in S : TRUE IN f[x] + Sum(f, S \ {x})

PutsInFlight == [c \in Callers |-> Cardinality(InFlight(batchCalls[c].limit.status))]

\* C25: over all the uploadMultipleFiles calls running in the process, at most 5
\* puts are in flight at any time.
C25_ProcessWideCap == Sum(PutsInFlight, Callers) <= ConcurrencyLimit

(***************************************************************************)
(* Properties of the rate limiter.                                         *)
(***************************************************************************)
\* the requests of `key` admitted in the window that ends at time `end`
AdmittedWithin(key, end) ==
    { k \in DOMAIN admitted[key] :
        admitted[key][k] >= end - limiter.windowMs /\ admitted[key][k] <= end }

RateLimitInvariant ==
    limiter # NoValue =>
        /\ \A key \in Keys : Len(userMap[key]) <= limiter.maxRequests
        /\ \A key \in Keys, end \in 0..clock :
              Cardinality(AdmittedWithin(key, end)) <= limiter.maxRequests
        /\ rlResponse.status = "429" =>
              Cardinality(AdmittedWithin(rlResponse.key, rlResponse.at)) = limiter.maxRequests

RateLimitStep ==
    /\ (rlResponse' # rlResponse /\ rlResponse'.status = "429") =>
          (userMap' = userMap /\ admitted' = admitted)
    /\ \A key \in Keys :
          (userMap'[key] # userMap[key] \/ admitted'[key] # admitted[key]) =>
              (rlResponse'.key = key /\ rlResponse'.status = "next")

\* C27: the list kept for a key never has more than maxRequests entries; no
\* window of windowMs holds more than maxRequests admitted requests of a key; a
\* request is answered 429 only when maxRequests admitted requests of its key lie
\* within the last windowMs; a rejected request changes no list; a request
\* changes only the list of its own key.
C27_WindowedQuota == [](RateLimitInvariant) /\ [][RateLimitStep]_vars

\* u1 is rejected at time 1 with its quota of 2 used up, while ip1 was admitted
C27_Witness ==
    /\ limiter # NoValue
    /\ limiter.maxRequests = 2
    /\ rlResponse = [key |-> "u1", status |-> "429", at |-> 1]
    /\ admitted["u1"] = <<0, 1>>
    /\ Len(admitted["ip1"]) = 1

(***************************************************************************)
(* Properties of testConnection.                                           *)
(***************************************************************************)
Occurrences(log, what) == Cardinality({ k \in DOMAIN log : log[k] = what })

\* the queries are separated by exactly one wait, after a failure
Alternates(log) ==
    \A k \in DOMAIN log :
        /\ log[k] = "query" /\ k < Len(log) => log[k + 1] \in {"ok", "failed"}
        /\ log[k] = "failed" /\ k < Len(log) => log[k + 1] = "wait"
        /\ log[k] = "wait" /\ k < Len(log) => log[k + 1] = "query"
        /\ log[k] = "ok" => k = Len(log)

TestConnectionInvariant ==
    dbpc # "idle" =>
        /\ Occurrences(dbLog, "query") <= dbCall.retries
        /\ Alternates(dbLog)
        /\ dbpc = "wait" <=> (dbLog # <<>> /\ dbLog[Len(dbLog)] = "wait")
        /\ dbpc = "returned" =>
            /\ dbResult = JSTrue <=> (dbLog # <<>> /\ dbLog[Len(dbLog)] = "ok")
            /\ dbResult = JSFalse <=>
                  (dbCall.retries >= 1 /\ Occurrences(dbLog, "failed") = dbCall.retries)
            /\ dbResult = Undefined <=> dbCall.retries = 0
            /\ dbCall.retries = 0 => dbLog = <<>>

BlobsOf(id) ==
    {StoredRows[id].s3Key}
    \cup LET thumbnails == GetProp(StoredRows[id].metadata, "thumbnails")
         IN IF Truthy(thumbnails)
            THEN { thumbnails.props[size].s3key : size \in DOMAIN thumbnails.props }
            ELSE {}

\* C29: a row is gone only when the original and the thumbnails of its image are
\* gone from the bucket, and when a deleteImage request has been answered with a
\* failure, every row still has its original in the bucket.
C29_CatalogAndStoreConsistent ==
    /\ \A id \in DOMAIN StoredRows \ DOMAIN rows : BlobsOf(id) \cap bucket = {}
    /\ (delpc = "done" /\ delResponse \in {"INTERNAL_SERVER_ERROR", "NOT_FOUND"}) =>
          \A id \in DOMAIN rows : rows[id].s3Key \in bucket

(***************************************************************************)
(* Properties of the ownership guard.                                      *)
(***************************************************************************)
OwnerOrAdmin ==
    /\ Truthy(ownReq.user)
    /\ \/ ownReq.user.props.role = "ADMIN"
       \/ /\ ownReq.id = JSString("img1")
          /\ ownReq.user.props.id = "u1"

\* C30: a request reaches the controller only from the owner of the image or an
\* ADMIN; with the default options the guard calls next() for the owner and for
\* an ADMIN asking for an existing image, and next(error) for everybody else; no
\* request is left without a call of next.
C30_OwnerOrAdminPasses ==
    ownpc # "idle" =>
        /\ ownNext = <<"controller">> => OwnerOrAdmin
        /\ ownpc \notin {"pending", "exited"}
        /\ (ownpc = "done" /\ ownReq.mount = [called |-> TRUE, type |-> Undefined]) =>
              IF OwnerOrAdmin /\ ownReq.id = JSString("img1")
              THEN ownNext = <<"controller">>
              ELSE ownNext[1] \in {"ForbiddenException", "UnauthorizedException"}

====
